---- MODULE Spec2Model ----
(***************************************************************************)
(* Model of the trial_api_orchestrator gateway: the credential store       *)
(* (app/storage/credentials.py), the event store (app/telemetry/events.py),*)
(* the provider adapters' HTTP pipeline (app/providers/*.py) and the       *)
(* failover selector (app/router/selector.py).                             *)
(***************************************************************************)
EXTENDS Integers, Sequences, FiniteSets, TLC

(***************************************************************************)
(* Bounds of the model                                                     *)
(***************************************************************************)
\* longest provider list of a configuration
MaxProviders == 2
\* last value of the wall clock (in UTC days)
MaxNow == 2
\* number of concurrent callers of the credential store
MaxProcs == 2
\* number of credential operations in one sequential history
MaxOps == 3
\* number of credential operations concurrent callers start
MaxCalls == 3
\* number of admin and adapter calls in one history
MaxAdminOps == 2
MaxTeleOps == 2
MaxRows == 2

(***************************************************************************)
(* Value domains                                                           *)
(***************************************************************************)
\* SQL NULL / Python None in a string column
NULL == "<null>"
\* SQL NULL in a timestamp column
NoTime == -1

\* provider ids a configuration may name
ProviderIds == {"cerebras", "gemini", "huggingface"}
\* provider ids the credential histories work on
CredIds == {"cerebras", "gemini"}
\* api keys callers submit
Keys == {"k1", "k2"}
\* error codes callers record
ErrorCodes == {"auth", "rate_limit"}

(***************************************************************************)
(* State                                                                   *)
(***************************************************************************)
VARIABLES
    now,            \* wall clock, in UTC days
    creds,          \* table provider_credentials: a set of rows
    cred_op,        \* sequential history: the last credential call and the table before it
    cred_count,     \* sequential history: number of calls made
    cproc,          \* concurrent callers: position and session state of each
    config,         \* AppConfig.providers, in file order
    vendor,         \* what each vendor's endpoint answers to a chat request
    events,         \* table events
    traces,         \* table provider_logs
    instances,      \* ProviderRegistry._instances: ids with a constructed adapter
    pc,             \* select_provider: "idle", "loop", "inflight", "done"
    request,        \* select_provider: the ChatCompletionRequest of the caller
    provider_override, \* select_provider: its provider_id argument, or NULL
    providers_to_try, \* select_provider: the candidates, in order
    attempt_index,  \* select_provider: position of the loop in providers_to_try
    last_failed,    \* select_provider: last_failed_provider_id / message / model
    final_failure,  \* select_provider: final_failure and final_failure_model
    inflight,       \* the adapter call awaiting its vendor: provider and request model
    attempts,       \* history: the candidates attempted, in order, and how each ended
    emitted,        \* history: the record_event calls made, in order
    result,         \* select_provider: what it returned or raised
    http_response,  \* create_chat_completion: what the ingress answered
    admin_op,       \* history: the last admin or adapter call, its input and its effects
    admin_count,    \* history: number of admin and adapter calls made
    events_enabled, \* events.py: _EVENTS_ENABLED, read from the environment at import
    store_down,     \* the tables whose transactions fail at the moment
    tele_op,        \* history: the last direct call of a telemetry function
    tele_count,     \* history: number of such calls made
    vendor_body,    \* a vendor's 2xx JSON body: its content items, text and usage
    normalized,     \* what an adapter's normalization made of vendor_body
    http_req,       \* the HTTP requests in flight: position, X-Request-Id header, request id
    request_id_ctx, \* logging.py: _REQUEST_ID_CTX as each request's task sees it
    written         \* history: the event and trace rows written, with their request_id

credVars == <<creds, cred_op, cred_count, cproc>>
envVars == <<config, vendor>>
storeVars == <<events, traces>>
selVars == <<instances, pc, request, provider_override, providers_to_try, attempt_index,
             last_failed, final_failure, inflight, attempts, emitted, result>>
apiVars == <<http_response, admin_op, admin_count>>
teleVars == <<events_enabled, store_down, tele_op, tele_count>>
normVars == <<vendor_body, normalized>>
ctxVars == <<http_req, request_id_ctx, written>>
vars == <<now, credVars, envVars, storeVars, selVars, apiVars, teleVars, normVars,
          ctxVars>>

(***************************************************************************)
(* Table provider_credentials                                              *)
(***************************************************************************)
\* rows of provider_id; session.scalar() takes the first of them
CredRowsOf(tbl, provider_id) == {r \in tbl : r.provider_id = provider_id}

FirstRow(rows) == CHOOSE r \in rows : \A o \in rows : r.id <= o.id

\* INTEGER PRIMARY KEY of SQLite: one more than the largest rowid in the table
NextRowId(tbl) ==
    IF tbl = {} THEN 1
    ELSE (CHOOSE m \in {r.id : r \in tbl} : \A r \in tbl : r.id <= m) + 1

\* the unique constraint uq_provider_credentials_provider_id
UniqueProviderId(tbl) ==
    \A r1 \in tbl, r2 \in tbl : r1.provider_id = r2.provider_id => r1.id = r2.id

\* a table without the unique constraint on provider_id: the insert always succeeds
InsertCredential_NoConstraint(tbl, provider_id, api_key, last_error, last_error_at, t) ==
    [tbl |-> tbl \cup {[id |-> NextRowId(tbl), provider_id |-> provider_id,
                        api_key |-> api_key, last_error |-> last_error,
                        last_error_at |-> last_error_at, updated_at |-> t]},
     raised |-> FALSE]

\* INSERT of a new row; the unique constraint rejects a second row of a provider
InsertCredential(tbl, provider_id, api_key, last_error, last_error_at, t) ==
    LET row == [id |-> NextRowId(tbl), provider_id |-> provider_id, api_key |-> api_key,
                last_error |-> last_error, last_error_at |-> last_error_at,
                updated_at |-> t]
    IN  IF UniqueProviderId(tbl \cup {row})
        THEN [tbl |-> tbl \cup {row}, raised |-> FALSE]
        ELSE [tbl |-> tbl, raised |-> TRUE]

\* an upsert that replaces the key of a row and keeps the row's error fields
UpdateKeyById_KeepError(tbl, row_id, api_key, t) ==
    {IF r.id = row_id THEN [r EXCEPT !.api_key = api_key, !.updated_at = t] ELSE r :
        r \in tbl}

\* UPDATE provider_credentials SET api_key, last_error, last_error_at WHERE id = row_id
UpdateKeyById(tbl, row_id, api_key, t) ==
    {IF r.id = row_id
     THEN [r EXCEPT !.api_key = api_key, !.last_error = NULL,
                    !.last_error_at = NoTime, !.updated_at = t]
     ELSE r : r \in tbl}

\* an update of last_error that leaves last_error_at as it was
UpdateErrorById_NoStamp(tbl, row_id, last_error, last_error_at, t) ==
    {IF r.id = row_id THEN [r EXCEPT !.last_error = last_error, !.updated_at = t] ELSE r :
        r \in tbl}

\* UPDATE provider_credentials SET last_error, last_error_at WHERE id = row_id
UpdateErrorById(tbl, row_id, last_error, last_error_at, t) ==
    {IF r.id = row_id
     THEN [r EXCEPT !.last_error = last_error, !.last_error_at = last_error_at,
                    !.updated_at = t]
     ELSE r : r \in tbl}

\* an upsert that inserts a row without looking for an existing one, into a table
\* without the unique constraint
UpsertWrite_AlwaysInsert(tbl, existing, provider_id, api_key, t) ==
    InsertCredential_NoConstraint(tbl, provider_id, api_key, NULL, NoTime, t)

\* the write of upsert_api_key, given the rows its SELECT returned
UpsertWrite(tbl, existing, provider_id, api_key, t) ==
    IF existing # {}
    THEN [tbl |-> UpdateKeyById(tbl, FirstRow(existing).id, api_key, t), raised |-> FALSE]
    ELSE InsertCredential(tbl, provider_id, api_key, NULL, NoTime, t)

\* a record_error that writes its whole record, empty api_key included, over the row
RecordErrorWrite_BlankKey(tbl, existing, provider_id, error_code, t) ==
    IF existing # {}
    THEN [tbl |-> {IF r.id = FirstRow(existing).id
                   THEN [r EXCEPT !.api_key = "", !.last_error = error_code,
                                  !.last_error_at = t, !.updated_at = t]
                   ELSE r : r \in tbl},
          raised |-> FALSE]
    ELSE InsertCredential(tbl, provider_id, "", error_code, t, t)

\* the write of record_error, given the rows its SELECT returned
RecordErrorWrite(tbl, existing, provider_id, error_code, t) ==
    IF existing # {}
    THEN [tbl |-> UpdateErrorById(tbl, FirstRow(existing).id, error_code, t, t),
          raised |-> FALSE]
    ELSE InsertCredential(tbl, provider_id, "", error_code, t, t)

\* a clear_error that resets last_error and keeps last_error_at
ClearErrorWrite_KeepTime(tbl, existing, t) ==
    IF existing # {} /\ FirstRow(existing).last_error \notin {NULL, ""}
    THEN [tbl |-> {IF r.id = FirstRow(existing).id
                   THEN [r EXCEPT !.last_error = NULL, !.updated_at = t] ELSE r :
                      r \in tbl},
          raised |-> FALSE]
    ELSE [tbl |-> tbl, raised |-> FALSE]

\* the write of clear_error, given the rows its SELECT returned
ClearErrorWrite(tbl, existing, t) ==
    IF existing # {} /\ FirstRow(existing).last_error \notin {NULL, ""}
    THEN [tbl |-> UpdateErrorById(tbl, FirstRow(existing).id, NULL, NoTime, t),
          raised |-> FALSE]
    ELSE [tbl |-> tbl, raised |-> FALSE]

\* a delete_api_key that returns true whether or not it found a row
DeleteWrite_AlwaysTrue(tbl, existing) ==
    IF existing = {}
    THEN [tbl |-> tbl, raised |-> FALSE, ret |-> TRUE]
    ELSE [tbl |-> {r \in tbl : r.id # FirstRow(existing).id}, raised |-> FALSE, ret |-> TRUE]

\* the write of delete_api_key, given the rows its SELECT returned
DeleteWrite(tbl, existing) ==
    IF existing = {}
    THEN [tbl |-> tbl, raised |-> FALSE, ret |-> FALSE]
    ELSE [tbl |-> {r \in tbl : r.id # FirstRow(existing).id}, raised |-> FALSE, ret |-> TRUE]

\* the five operations run alone: SELECT and write in one transaction
upsert_api_key(tbl, provider_id, api_key, t) ==
    UpsertWrite(tbl, CredRowsOf(tbl, provider_id), provider_id, api_key, t).tbl

\* a get_api_key that yields no key for a row that carries an error
get_api_key_AvailableOnly(tbl, provider_id) ==
    IF CredRowsOf(tbl, provider_id) = {} THEN NULL
    ELSE IF FirstRow(CredRowsOf(tbl, provider_id)).last_error # NULL THEN NULL
    ELSE FirstRow(CredRowsOf(tbl, provider_id)).api_key

get_api_key(tbl, provider_id) ==
    IF CredRowsOf(tbl, provider_id) = {} THEN NULL
    ELSE FirstRow(CredRowsOf(tbl, provider_id)).api_key

record_error(tbl, provider_id, error_code, t) ==
    RecordErrorWrite(tbl, CredRowsOf(tbl, provider_id), provider_id, error_code, t).tbl

\* a clear_error that clears the error of every row
clear_error_AllRows(tbl, provider_id, t) ==
    {[r EXCEPT !.last_error = NULL, !.last_error_at = NoTime, !.updated_at = t] : r \in tbl}

clear_error(tbl, provider_id, t) ==
    ClearErrorWrite(tbl, CredRowsOf(tbl, provider_id), t).tbl

delete_api_key(tbl, provider_id) ==
    DeleteWrite(tbl, CredRowsOf(tbl, provider_id))

(***************************************************************************)
(* Errors (app/core/exceptions.py)                                         *)
(***************************************************************************)
NoError == [kind |-> "none", provider_id |-> "", message |-> ""]

ProviderUnavailableError(pid, message) ==
    [kind |-> "ProviderUnavailableError", provider_id |-> pid, message |-> message]

AuthenticationRequiredError(pid) ==
    [kind |-> "AuthenticationRequiredError", provider_id |-> pid,
     message |-> "Provider credentials missing"]

\* response.json() on a body that is not JSON
ValueError(pid) == [kind |-> "ValueError", provider_id |-> pid, message |-> "not JSON"]

\* what `except ProviderUnavailableError` catches: the class and its subclass
\* an except clause that takes every exception
IsProviderUnavailable_AnyException(e) == e.kind # "none"

IsProviderUnavailable(e) ==
    e.kind \in {"ProviderUnavailableError", "AuthenticationRequiredError"}

(***************************************************************************)
(* Table events (app/telemetry/events.py)                                  *)
(***************************************************************************)
RETENTION_DAYS == 2

_current_retention_cutoff(t) == t - (RETENTION_DAYS - 1)

_prune_old_events(tbl, t) ==
    SelectSeq(tbl, LAMBDA e : ~(e.ts < _current_retention_cutoff(t)))

\* an event as record_event receives it
Event(kind, level, provider_from, provider_to, model, message, attempt) ==
    [kind |-> kind, level |-> level, provider_from |-> provider_from,
     provider_to |-> provider_to, model |-> model, message |-> message,
     attempt |-> attempt]

\* a record_event whose transaction adds the row and prunes nothing
record_event_NoPrune(tbl, ev, t) ==
    IF ~events_enabled \/ "events" \in store_down THEN tbl
    ELSE Append(tbl, ev @@ [ts |-> t])

\* record_event: nothing with events disabled; else one transaction prunes the old
\* rows and adds the row, and a transaction that fails is rolled back and forgotten
record_event(tbl, ev, t) ==
    IF ~events_enabled \/ "events" \in store_down THEN tbl
    ELSE Append(_prune_old_events(tbl, t), ev @@ [ts |-> t])

(***************************************************************************)
(* Table provider_logs (app/storage/provider_logs.py)                      *)
(***************************************************************************)
_start_of_today(t) == t

\* a row of provider_logs: created_at is set from the clock when the row is written
ProviderLog(pid, request_body, response_body, status_code, t) ==
    [provider_id |-> pid, created_at |-> t, request_body |-> request_body,
     response_body |-> response_body, status_code |-> status_code]

\* a record_provider_log that deletes the old rows of its own provider only
record_provider_log_OwnProvider(tbl, pid, request_body, response_body, status_code, t) ==
    IF "provider_logs" \in store_down THEN tbl
    ELSE Append(SelectSeq(tbl, LAMBDA l : ~(l.provider_id = pid
                                             /\ l.created_at < _start_of_today(t))),
                ProviderLog(pid, request_body, response_body, status_code, t))

\* record_provider_log: one transaction deletes the rows of earlier days and adds the
\* row; a transaction that fails is rolled back and forgotten
record_provider_log(tbl, pid, request_body, response_body, status_code, t) ==
    IF "provider_logs" \in store_down THEN tbl
    ELSE Append(SelectSeq(tbl, LAMBDA l : ~(l.created_at < _start_of_today(t))),
                ProviderLog(pid, request_body, response_body, status_code, t))

(***************************************************************************)
(* Provider adapters (app/providers/*.py)                                  *)
(***************************************************************************)
\* ProviderRegistry._adapter_map
AdapterMap == {"cerebras", "cohere", "gemini", "openrouter"}

\* the adapters whose _post_chat calls record_provider_log
LoggingAdapters == {"cerebras", "cohere"}

\* the adapters that take the response's model from the vendor's body when it has one
VendorModelAdapters == {"cerebras", "cohere", "openrouter"}

\* what a vendor answers: a 2xx JSON object without or with its own model name, a
\* transport error, 401, 402/403/429, another status >= 400, a 2xx JSON value that is
\* no object, a 2xx body that is not JSON
Outcomes == {"ok", "ok_model", "network", "http_401", "http_429", "http_500",
             "non_object", "not_json"}

\* the model name a vendor reports in its body
VendorModel(pid) == "vendor-" \o pid

\* GeminiProvider._extract_error_detail on the vendor's error body
ErrorDetail(pid, outcome) ==
    IF pid = "gemini" /\ outcome = "http_429" THEN ": RESOURCE_EXHAUSTED" ELSE ""

\* message of the ProviderUnavailableError for 402/403/429
QuotaMessage(pid, outcome) ==
    IF pid = "gemini" THEN "Provider quota exhausted" \o ErrorDetail(pid, outcome)
    ELSE "Provider quota exhausted"

\* _post_chat: classify the vendor's answer, update the credential row, write the trace
_post_chat(pid, outcome, req_model, tbl, logs, track_errors, t) ==
    LET err(code) == IF track_errors THEN record_error(tbl, pid, code, t) ELSE tbl
        cleared == IF track_errors THEN clear_error(tbl, pid, t) ELSE tbl
        log(body, status) ==
            IF track_errors /\ pid \in LoggingAdapters
            THEN record_provider_log(logs, pid, req_model, body, status, t)
            ELSE logs
    IN  CASE outcome = "network" ->
               [creds |-> err("network"), traces |-> log("network", 0),
                error |-> ProviderUnavailableError(pid, "Provider request failed"),
                data |-> NULL]
          [] outcome = "http_401" ->
               [creds |-> err("auth"), traces |-> log("unauthorized", 401),
                error |-> AuthenticationRequiredError(pid), data |-> NULL]
          [] outcome = "http_429" ->
               [creds |-> err("rate_limit"), traces |-> log("rate_limit", 429),
                error |-> ProviderUnavailableError(pid, QuotaMessage(pid, outcome)),
                data |-> NULL]
          [] outcome = "http_500" ->
               [creds |-> err("http_500"), traces |-> log("http_error", 500),
                error |-> ProviderUnavailableError(pid, "Provider error"), data |-> NULL]
          [] outcome = "not_json" ->
               [creds |-> cleared, traces |-> logs, error |-> ValueError(pid),
                data |-> NULL]
          [] outcome = "non_object" ->
               [creds |-> cleared, traces |-> log("unexpected_response", 0),
                error |-> ProviderUnavailableError(pid, "Unexpected response format"),
                data |-> NULL]
          [] outcome = "ok_model" ->
               [creds |-> cleared, traces |-> log("data", 200), error |-> NoError,
                data |-> VendorModel(pid)]
          [] OTHER ->
               [creds |-> cleared, traces |-> log("data", 200), error |-> NoError,
                data |-> NULL]

\* the ChatCompletionResponse an adapter builds from the vendor's body
NormalizedResponse(pid, data, req_model) ==
    [provider |-> pid,
     model |-> IF pid \in VendorModelAdapters /\ data # NULL THEN data ELSE req_model]

(***************************************************************************)
(* Provider registry and selector (app/router/selector.py)                 *)
(***************************************************************************)
\* sorted(self._config.providers, key=lambda p: p.priority): stable, ascending
providers(cfg) ==
    LET n == Len(cfg)
        rank(i) == Cardinality({j \in 1..n :
                        \/ cfg[j].priority < cfg[i].priority
                        \/ cfg[j].priority = cfg[i].priority /\ j < i}) + 1
    IN  [k \in 1..n |-> cfg[CHOOSE i \in 1..n : rank(i) = k]]

\* get_adapter fails for an id without an adapter class
get_adapter(provider) ==
    IF provider.id \in AdapterMap THEN NoError
    ELSE ProviderUnavailableError(provider.id, "No adapter configured")

\* a resolution that prefers the provider's default model to the request's model
_resolve_request_model_DefaultFirst(req, provider) ==
    IF provider.default # "" THEN [error |-> NoError, model |-> provider.default]
    ELSE IF req.model = ""
    THEN [error |-> ProviderUnavailableError(provider.id, "No default model configured"),
          model |-> ""]
    ELSE [error |-> NoError, model |-> req.model]

_resolve_request_model(req, provider) ==
    IF req.model # "" THEN [error |-> NoError, model |-> req.model]
    ELSE IF provider.default = ""
    THEN [error |-> ProviderUnavailableError(provider.id, "No default model configured"),
          model |-> ""]
    ELSE [error |-> NoError, model |-> provider.default]

NoFailure == [provider_id |-> NULL, message |-> NULL, model |-> NULL]
NoFinalFailure == [error |-> NoError, model |-> NULL]
NoInflight == [provider |-> NULL, model |-> NULL]
NoResponse == [provider |-> NULL, model |-> NULL]
\* one entry of the history of attempts: the candidate, the model resolved for it,
\* whether its chat_completions was called, whether that call issued an HTTP request,
\* the error the attempt raised (NoError: none), whether the attempt is over
Attempt(pid, model, called, http, error) ==
    [provider |-> pid, model |-> model, called |-> called, http |-> http,
     error |-> error, ended |-> ~(called /\ http)]

Pending == [status |-> "pending", response |-> NoResponse, error |-> NoError]
Returned(response) == [status |-> "returned", response |-> response, error |-> NoError]
Raised(error) == [status |-> "raised", response |-> NoResponse, error |-> error]

\* no answer of the ingress yet
NoHttpResponse == [status |-> 0, code |-> NULL, emitted |-> <<>>]

\* no admin or adapter call made yet
NoAdminOp ==
    [op |-> "none", provider_id |-> "", api_key |-> "", outcome |-> "ok", status |-> 0,
     error |-> NoError, http |-> FALSE, called |-> FALSE, response |-> NoResponse,
     creds_before |-> {}, events_before |-> <<>>, traces_before |-> <<>>,
     validated |-> [creds |-> {}, traces |-> <<>>, key |-> ""], emitted |-> <<>>]

\* the tables of the telemetry
Tables == {"events", "provider_logs"}

\* no direct call of a telemetry function made yet
NoTeleOp ==
    [op |-> "none", provider_id |-> "", limit |-> 0, enabled |-> TRUE, down |-> {},
     at |-> 0, ret |-> <<>>, events_before |-> <<>>, traces_before |-> <<>>]

\* a count a vendor's usage object does not report
Absent == -1

\* a usage object without any key
NoUsage ==
    [has_tokens |-> FALSE,
     tokens |-> [input |-> Absent, prompt |-> Absent, output |-> Absent,
                 generation |-> Absent, total |-> Absent],
     prompt_tokens |-> Absent, completion_tokens |-> Absent, total_tokens |-> Absent,
     promptTokenCount |-> Absent, candidatesTokenCount |-> Absent,
     totalTokenCount |-> Absent]

\* nothing normalized yet
NotNormalized ==
    [by |-> "none",
     content |-> [is_list |-> FALSE, text |-> "", parts |-> <<>>],
     tool_calls |-> <<>>, citations |-> <<>>,
     usage |-> [present |-> FALSE, prompt_tokens |-> Absent,
                completion_tokens |-> Absent, total_tokens |-> Absent]]

\* no vendor body under normalization
\* a request that has not arrived
NoRequest == [pc |-> "new", header |-> "", request_id |-> NULL, token |-> NULL, writes |-> 0]

MaxRequests == 2

CtxUnused ==
    /\ http_req = [r \in 1..MaxRequests |-> NoRequest]
    /\ request_id_ctx = [r \in 1..MaxRequests |-> NULL]
    /\ written = <<>>

NormUnused ==
    /\ vendor_body = [content |-> <<>>, text |-> NULL, usage |-> NoUsage]
    /\ normalized = NotNormalized
    /\ CtxUnused

\* events enabled, every table writable, no direct telemetry call
TelemetryUnused ==
    /\ events_enabled = TRUE
    /\ store_down = {}
    /\ tele_op = NoTeleOp
    /\ tele_count = 0

ApiUnused ==
    /\ http_response = NoHttpResponse
    /\ admin_op = NoAdminOp
    /\ admin_count = 0
    /\ TelemetryUnused
    /\ NormUnused

\* the state of the model's parts a specification does not run
SelectorUnused ==
    /\ config = <<>>
    /\ vendor = [p \in ProviderIds |-> "ok"]
    /\ events = <<>>
    /\ traces = <<>>
    /\ instances = {}
    /\ pc = "unused"
    /\ request = [model |-> ""]
    /\ provider_override = NULL
    /\ providers_to_try = <<>>
    /\ attempt_index = 1
    /\ last_failed = NoFailure
    /\ final_failure = NoFinalFailure
    /\ inflight = NoInflight
    /\ attempts = <<>>
    /\ emitted = <<>>
    /\ result = Pending
    /\ ApiUnused

\* a selector that ignores the override and tries every configured provider
Begin_IgnoreOverride(model, override) ==
    /\ pc = "idle"
    /\ request' = [model |-> model]
    /\ provider_override' = override
    /\ providers_to_try' = providers(config)
    /\ pc' = "loop"
    /\ UNCHANGED <<now, credVars, envVars, storeVars, instances, attempt_index,
                   last_failed, final_failure, inflight, attempts, emitted, result>>
    /\ UNCHANGED <<apiVars, teleVars, normVars, ctxVars>>

\* select_provider up to its loop: the candidates
Begin(model, override) ==
    /\ pc = "idle"
    /\ request' = [model |-> model]
    /\ provider_override' = override
    /\ LET available_providers == providers(config)
           found == {i \in 1..Len(available_providers) :
                        available_providers[i].id = override}
       IN  IF override # NULL /\ found = {}
           THEN /\ result' = Raised(ProviderUnavailableError(override,
                                                              "Provider not configured"))
                /\ pc' = "done"
                /\ UNCHANGED providers_to_try
           ELSE /\ providers_to_try' =
                       IF override # NULL
                       THEN <<available_providers[CHOOSE i \in found : TRUE]>>
                       ELSE available_providers
                /\ pc' = "loop"
                /\ UNCHANGED result
    /\ UNCHANGED <<now, credVars, envVars, storeVars, instances, attempt_index,
                   last_failed, final_failure, inflight, attempts, emitted>>
    /\ UNCHANGED <<apiVars, teleVars, normVars, ctxVars>>

\* an except branch that keeps the first failure as the one to surface
ProviderFailed_KeepFirst(exc, provider_model, resolved_model, emitted_before, events_before) ==
    LET ev == Event("provider_fail", "WARNING", provider_model.id, NULL, resolved_model,
                    exc.message, attempt_index)
    IN  /\ emitted' = Append(emitted_before, ev)
        /\ events' = record_event(events_before, ev, now)
        /\ last_failed' = [provider_id |-> provider_model.id, message |-> exc.message,
                           model |-> resolved_model]
        /\ final_failure' = IF final_failure.error # NoError THEN final_failure
                            ELSE [error |-> exc, model |-> resolved_model]
        /\ attempt_index' = attempt_index + 1
        /\ pc' = "loop"
        /\ inflight' = NoInflight
        /\ UNCHANGED result

\* an except branch that records no provider_fail event
ProviderFailed_NoEvent(exc, provider_model, resolved_model, emitted_before, events_before) ==
    /\ emitted' = emitted_before
    /\ events' = events_before
    /\ last_failed' = [provider_id |-> provider_model.id, message |-> exc.message,
                       model |-> resolved_model]
    /\ final_failure' = [error |-> exc, model |-> resolved_model]
    /\ attempt_index' = attempt_index + 1
    /\ pc' = "loop"
    /\ inflight' = NoInflight
    /\ UNCHANGED result

\* an except branch whose record_event lets a failure of the event store escape
ProviderFailed_StoreFailureEscapes(exc, provider_model, resolved_model, emitted_before, events_before) ==
    LET ev == Event("provider_fail", "WARNING", provider_model.id, NULL, resolved_model,
                    exc.message, attempt_index)
        escapes == "events" \in store_down
    IN  /\ emitted' = Append(emitted_before, ev)
        /\ events' = record_event(events_before, ev, now)
        /\ last_failed' = [provider_id |-> provider_model.id, message |-> exc.message,
                           model |-> resolved_model]
        /\ final_failure' = [error |-> exc, model |-> resolved_model]
        /\ attempt_index' = IF escapes THEN attempt_index ELSE attempt_index + 1
        /\ pc' = IF escapes THEN "done" ELSE "loop"
        /\ inflight' = NoInflight
        /\ result' = IF escapes
                     THEN Raised([kind |-> "OperationalError", provider_id |-> "",
                                  message |-> "database is locked"])
                     ELSE result

\* an except branch after which the loop tries the first candidate a second time
ProviderFailed_Retry(exc, provider_model, resolved_model, emitted_before, events_before) ==
    LET ev == Event("provider_fail", "WARNING", provider_model.id, NULL, resolved_model,
                    exc.message, attempt_index)
    IN  /\ emitted' = Append(emitted_before, ev)
        /\ events' = record_event(events_before, ev, now)
        /\ last_failed' = [provider_id |-> provider_model.id, message |-> exc.message,
                           model |-> resolved_model]
        /\ final_failure' = [error |-> exc, model |-> resolved_model]
        /\ attempt_index' = IF Len(attempts') < 2 THEN attempt_index ELSE attempt_index + 1
        /\ pc' = "loop"
        /\ inflight' = NoInflight
        /\ UNCHANGED result

\* the except branch of the loop: provider_fail is recorded and the loop goes on
ProviderFailed(exc, provider_model, resolved_model, emitted_before, events_before) ==
    LET ev == Event("provider_fail", "WARNING", provider_model.id, NULL, resolved_model,
                    exc.message, attempt_index)
    IN  /\ emitted' = Append(emitted_before, ev)
        /\ events' = record_event(events_before, ev, now)
        /\ last_failed' = [provider_id |-> provider_model.id, message |-> exc.message,
                           model |-> resolved_model]
        /\ final_failure' = [error |-> exc, model |-> resolved_model]
        /\ attempt_index' = attempt_index + 1
        /\ pc' = "loop"
        /\ inflight' = NoInflight
        /\ UNCHANGED result
(***************************************************************************)
(* Sequential histories of the credential store: each call runs alone      *)
(***************************************************************************)
\* a caller of the credential store that is not inside a call
IdleProc == [pc |-> "idle", op |-> "none", provider_id |-> "", arg |-> "", existing |-> {},
             raised |-> FALSE, ret |-> FALSE]

NoCredOp == [op |-> "none", provider_id |-> "", arg |-> "", ret |-> FALSE, before |-> {}]

CredInit ==
    /\ now = 1
    /\ creds = {}
    /\ cred_op = NoCredOp
    /\ cred_count = 0
    /\ cproc = [c \in 1..MaxProcs |-> IdleProc]
    /\ SelectorUnused

SeqUpsert(p, k) ==
    /\ cred_count < MaxOps
    /\ creds' = upsert_api_key(creds, p, k, now)
    /\ cred_op' = [op |-> "upsert_api_key", provider_id |-> p, arg |-> k, ret |-> FALSE,
                    before |-> creds]
    /\ cred_count' = cred_count + 1
    /\ UNCHANGED <<now, cproc, envVars, storeVars, selVars>>
    /\ UNCHANGED <<apiVars, teleVars, normVars, ctxVars>>

SeqRecordError(p, e) ==
    /\ cred_count < MaxOps
    /\ creds' = record_error(creds, p, e, now)
    /\ cred_op' = [op |-> "record_error", provider_id |-> p, arg |-> e, ret |-> FALSE,
                    before |-> creds]
    /\ cred_count' = cred_count + 1
    /\ UNCHANGED <<now, cproc, envVars, storeVars, selVars>>
    /\ UNCHANGED <<apiVars, teleVars, normVars, ctxVars>>

SeqClearError(p) ==
    /\ cred_count < MaxOps
    /\ creds' = clear_error(creds, p, now)
    /\ cred_op' = [op |-> "clear_error", provider_id |-> p, arg |-> "", ret |-> FALSE,
                    before |-> creds]
    /\ cred_count' = cred_count + 1
    /\ UNCHANGED <<now, cproc, envVars, storeVars, selVars>>
    /\ UNCHANGED <<apiVars, teleVars, normVars, ctxVars>>

SeqDelete(p) ==
    /\ cred_count < MaxOps
    /\ creds' = delete_api_key(creds, p).tbl
    /\ cred_op' = [op |-> "delete_api_key", provider_id |-> p, arg |-> "",
                    ret |-> delete_api_key(creds, p).ret, before |-> creds]
    /\ cred_count' = cred_count + 1
    /\ UNCHANGED <<now, cproc, envVars, storeVars, selVars>>
    /\ UNCHANGED <<apiVars, teleVars, normVars, ctxVars>>

\* the wall clock advances
Tick ==
    /\ now < MaxNow
    /\ now' = now + 1
    /\ UNCHANGED <<credVars, envVars, storeVars, selVars>>
    /\ UNCHANGED <<apiVars, teleVars, normVars, ctxVars>>

CredSeqNext ==
    \/ \E p \in CredIds, k \in Keys : SeqUpsert(p, k)
    \/ \E p \in CredIds, e \in ErrorCodes : SeqRecordError(p, e)
    \/ \E p \in CredIds : SeqClearError(p)
    \/ \E p \in CredIds : SeqDelete(p)
    \/ Tick

SpecCredSeq == CredInit /\ [][CredSeqNext]_vars

(***************************************************************************)
(* Concurrent callers of the credential store. A call is two steps: the    *)
(* SELECT of its session, then the flush and commit of its write           *)
(* (session_scope, autoflush off).                                         *)
(***************************************************************************)
CredOps == {"upsert_api_key", "record_error", "clear_error", "delete_api_key"}

ArgsOf(op) ==
    IF op = "upsert_api_key" THEN Keys
    ELSE IF op = "record_error" THEN ErrorCodes
    ELSE {""}

\* caller c enters op(p, arg) and its session runs the SELECT
CredSelect(c, op, p, arg) ==
    /\ cproc[c].pc = "idle"
    /\ cred_count < MaxCalls
    /\ cproc' = [cproc EXCEPT ![c] = [pc |-> "selected", op |-> op, provider_id |-> p,
                                       arg |-> arg, existing |-> CredRowsOf(creds, p),
                                       raised |-> FALSE, ret |-> FALSE]]
    /\ cred_count' = cred_count + 1
    /\ UNCHANGED <<now, creds, cred_op, envVars, storeVars, selVars>>
    /\ UNCHANGED <<apiVars, teleVars, normVars, ctxVars>>

\* the write a call makes at commit, from the rows its SELECT saw
CredWriteOf(tbl, pr, t) ==
    IF pr.op = "upsert_api_key"
    THEN UpsertWrite(tbl, pr.existing, pr.provider_id, pr.arg, t) @@ [ret |-> FALSE]
    ELSE IF pr.op = "record_error"
    THEN RecordErrorWrite(tbl, pr.existing, pr.provider_id, pr.arg, t) @@ [ret |-> FALSE]
    ELSE IF pr.op = "clear_error"
    THEN ClearErrorWrite(tbl, pr.existing, t) @@ [ret |-> FALSE]
    ELSE DeleteWrite(tbl, pr.existing)

\* caller c's session commits (or rolls back and raises) and the call returns
CredCommit(c) ==
    /\ cproc[c].pc = "selected"
    /\ LET w == CredWriteOf(creds, cproc[c], now)
       IN  /\ creds' = w.tbl
           /\ cproc' = [cproc EXCEPT ![c] = [@ EXCEPT !.pc = "idle", !.raised = w.raised,
                                                      !.ret = w.ret]]
    /\ UNCHANGED <<now, cred_op, cred_count, envVars, storeVars, selVars>>
    /\ UNCHANGED <<apiVars, teleVars, normVars, ctxVars>>

CredNext ==
    \/ \E c \in 1..MaxProcs, op \in CredOps, p \in CredIds :
          \E arg \in ArgsOf(op) : CredSelect(c, op, p, arg)
    \/ \E c \in 1..MaxProcs : CredCommit(c)

SpecCred == CredInit /\ [][CredNext]_vars

\* one pass of the loop up to the adapter's HTTP request: provider_switched after a
\* failure, the request model, the adapter, the stored api key
NextCandidate ==
    /\ pc = "loop"
    /\ attempt_index <= Len(providers_to_try)
    /\ LET provider_model == providers_to_try[attempt_index]
           switched == last_failed.provider_id # NULL
           sw == Event("provider_switched", "INFO", last_failed.provider_id,
                       provider_model.id, last_failed.model, last_failed.message,
                       attempt_index)
           emitted1 == IF switched THEN Append(emitted, sw) ELSE emitted
           events1 == IF switched THEN record_event(events, sw, now) ELSE events
           resolved == _resolve_request_model(request, provider_model)
           adapter_error == get_adapter(provider_model)
           raised == IF resolved.error # NoError THEN resolved.error ELSE adapter_error
           api_key == get_api_key(creds, provider_model.id)
       IN  IF raised # NoError
           THEN /\ result' = Raised(raised)
                /\ pc' = "done"
                /\ emitted' = emitted1
                /\ events' = events1
                /\ last_failed' = NoFailure
                /\ attempts' = Append(attempts, Attempt(provider_model.id, resolved.model,
                                                         FALSE, FALSE, raised))
                /\ UNCHANGED <<instances, attempt_index, final_failure, inflight>>
           ELSE IF api_key \in {NULL, ""}
           THEN /\ instances' = instances \cup {provider_model.id}
                /\ attempts' = Append(attempts,
                                       Attempt(provider_model.id, resolved.model, TRUE, FALSE,
                                               AuthenticationRequiredError(provider_model.id)))
                /\ ProviderFailed(AuthenticationRequiredError(provider_model.id),
                                  provider_model, resolved.model, emitted1, events1)
           ELSE /\ instances' = instances \cup {provider_model.id}
                /\ attempts' = Append(attempts, Attempt(provider_model.id, resolved.model,
                                                         TRUE, TRUE, NoError))
                /\ inflight' = [provider |-> provider_model.id, model |-> resolved.model]
                /\ pc' = "inflight"
                /\ emitted' = emitted1
                /\ events' = events1
                /\ last_failed' = NoFailure
                /\ UNCHANGED <<attempt_index, final_failure, result>>
    /\ UNCHANGED <<now, credVars, envVars, traces, request, provider_override, providers_to_try>>
    /\ UNCHANGED <<apiVars, teleVars, normVars, ctxVars>>

\* the vendor answers the adapter call in flight; the adapter and the loop handle it
Response ==
    /\ pc = "inflight"
    /\ LET provider_model == providers_to_try[attempt_index]
           r == _post_chat(inflight.provider, vendor[inflight.provider], inflight.model,
                           creds, traces, TRUE, now)
       IN  /\ creds' = r.creds
           /\ traces' = r.traces
           /\ attempts' = [attempts EXCEPT ![Len(attempts)].error = r.error,
                                           ![Len(attempts)].ended = TRUE]
           /\ IF r.error = NoError
              THEN /\ result' = Returned(NormalizedResponse(inflight.provider, r.data,
                                                            inflight.model))
                   /\ pc' = "done"
                   /\ inflight' = NoInflight
                   /\ UNCHANGED <<events, emitted, last_failed, final_failure,
                                  attempt_index>>
              ELSE IF IsProviderUnavailable(r.error)
              THEN ProviderFailed(r.error, provider_model, inflight.model, emitted, events)
              ELSE /\ result' = Raised(r.error)
                   /\ pc' = "done"
                   /\ inflight' = NoInflight
                   /\ UNCHANGED <<events, emitted, last_failed, final_failure,
                                  attempt_index>>
    /\ UNCHANGED <<now, cred_op, cred_count, cproc, envVars, instances, request,
                   provider_override, providers_to_try>>
    /\ UNCHANGED <<apiVars, teleVars, normVars, ctxVars>>

\* after the loop: request_error for the last failure, or no provider at all
Exhausted ==
    /\ pc = "loop"
    /\ attempt_index > Len(providers_to_try)
    /\ IF final_failure.error # NoError
       THEN LET ev == Event("request_error", "ERROR", final_failure.error.provider_id,
                            NULL, final_failure.model, final_failure.error.message, 0)
            IN  /\ emitted' = Append(emitted, ev)
                /\ events' = record_event(events, ev, now)
                /\ result' = Raised(final_failure.error)
       ELSE /\ result' = Raised(ProviderUnavailableError("unknown",
                                                         "No providers configured"))
            /\ UNCHANGED <<emitted, events>>
    /\ pc' = "done"
    /\ UNCHANGED <<now, credVars, envVars, traces, instances, request, provider_override,
                   providers_to_try, attempt_index, last_failed, final_failure, inflight,
                   attempts>>
    /\ UNCHANGED <<apiVars, teleVars, normVars, ctxVars>>

(***************************************************************************)
(* Chat-completions ingress (app/api/openai.py, app/main.py)               *)
(***************************************************************************)
\* the values the x-provider-id header admits
HeaderProviderIds == {"cerebras", "cohere", "gemini", "openrouter"}

\* unexpected_exception_handler: a request_error event and a generic 500
unexpected_exception_handler(exc, evs, t) ==
    LET ev == Event("request_error", "ERROR", NULL, NULL, NULL, exc.message, 0)
    IN  [status |-> 500, code |-> "internal_error", events |-> record_event(evs, ev, t),
         emitted |-> <<ev>>]

\* an ingress whose except clauses are in the other order: the base class first
create_chat_completion_UnavailableFirst(res, evs, t) ==
    IF res.status = "returned"
    THEN [status |-> 200, code |-> NULL, events |-> evs, emitted |-> <<>>]
    ELSE IF IsProviderUnavailable(res.error)
    THEN [status |-> 429, code |-> "provider_unavailable", events |-> evs,
          emitted |-> <<>>]
    ELSE unexpected_exception_handler(res.error, evs, t)

\* create_chat_completion once select_provider has returned or raised
create_chat_completion(res, evs, t) ==
    IF res.status = "returned"
    THEN [status |-> 200, code |-> NULL, events |-> evs, emitted |-> <<>>]
    ELSE IF res.error.kind = "AuthenticationRequiredError"
    THEN [status |-> 401, code |-> "provider_auth_required", events |-> evs,
          emitted |-> <<>>]
    ELSE IF res.error.kind = "ProviderUnavailableError"
    THEN [status |-> 429, code |-> "provider_unavailable", events |-> evs,
          emitted |-> <<>>]
    ELSE unexpected_exception_handler(res.error, evs, t)

\* the ingress answers the request whose select_provider call is over
Ingress ==
    /\ pc = "done"
    /\ provider_override \in HeaderProviderIds \cup {NULL}
    /\ http_response = NoHttpResponse
    /\ LET r == create_chat_completion(result, events, now)
       IN  /\ http_response' = [status |-> r.status, code |-> r.code, emitted |-> r.emitted]
           /\ events' = r.events
    /\ UNCHANGED <<now, credVars, envVars, traces, selVars, admin_op, admin_count,
                   teleVars, normVars, ctxVars>>

(***************************************************************************)
(* The selector's runs: any configuration, vendors and stored credentials  *)
(***************************************************************************)
Priorities == {10, 20}
RequestModels == {"", "gpt-x"}
DefaultModel(p) == "default-" \o p

ProviderOrder == <<"cerebras", "gemini", "huggingface">>

\* position of a provider in ProviderOrder, and rowid of its row in an initial table
InitialRowId(p) == CHOOSE i \in 1..Len(ProviderOrder) : ProviderOrder[i] = p

ProviderModels ==
    UNION {[id : {p}, priority : Priorities, default : {"", DefaultModel(p)}] :
           p \in ProviderIds}

\* the provider lists: distinct ids, listed in the order of ProviderOrder
Configs ==
    UNION {{cfg \in [1..n -> ProviderModels] :
               \A i \in 1..n, j \in 1..n :
                   i < j => InitialRowId(cfg[i].id) < InitialRowId(cfg[j].id)} :
           n \in 0..MaxProviders}

ConfiguredIds(cfg) == {cfg[i].id : i \in 1..Len(cfg)}

CredStates == {"none", "key", "key_error"}

InitialCreds(st) ==
    {[id |-> InitialRowId(p), provider_id |-> p, api_key |-> "k1",
      last_error |-> IF st[p] = "key_error" THEN "rate_limit" ELSE NULL,
      last_error_at |-> IF st[p] = "key_error" THEN 1 ELSE NoTime,
      updated_at |-> 1] : p \in {q \in ProviderIds : st[q] # "none"}}

\* a vendor that is never asked answers "ok"
Contacted(cfg, st, p) == p \in ConfiguredIds(cfg) /\ p \in AdapterMap /\ st[p] # "none"

SelInit ==
    /\ now = 1
    /\ cred_op = NoCredOp
    /\ cred_count = 0
    /\ cproc = [c \in 1..MaxProcs |-> IdleProc]
    /\ config \in Configs
    /\ \E st \in [ProviderIds -> CredStates] :
          /\ \A p \in ProviderIds : p \notin ConfiguredIds(config) => st[p] = "none"
          /\ creds = InitialCreds(st)
          /\ vendor \in {v \in [ProviderIds -> Outcomes] :
                            \A p \in ProviderIds : ~Contacted(config, st, p) => v[p] = "ok"}
    /\ events = <<>>
    /\ traces = <<>>
    /\ instances = {}
    /\ pc = "idle"
    /\ request = [model |-> ""]
    /\ provider_override = NULL
    /\ providers_to_try = <<>>
    /\ attempt_index = 1
    /\ last_failed = NoFailure
    /\ final_failure = NoFinalFailure
    /\ inflight = NoInflight
    /\ attempts = <<>>
    /\ emitted = <<>>
    /\ result = Pending
    /\ ApiUnused

SelNext ==
    \/ \E model \in RequestModels, override \in ProviderIds \cup {NULL} :
          Begin(model, override)
    \/ NextCandidate
    \/ Response
    \/ Exhausted
    \/ Ingress

SpecSelector == SelInit /\ [][SelNext]_vars

(***************************************************************************)
(* Cancellation of a request whose adapter call awaits the vendor           *)
(***************************************************************************)
\* asyncio.CancelledError: a BaseException, no subclass of Exception
CancelledError == [kind |-> "CancelledError", provider_id |-> "", message |-> ""]

\* a loop that takes the cancellation for a failure of the provider
Cancelled_TriesNext ==
    /\ pc = "inflight"
    /\ attempts' = [attempts EXCEPT ![Len(attempts)].error = CancelledError,
                                    ![Len(attempts)].ended = TRUE]
    /\ ProviderFailed(ProviderUnavailableError(inflight.provider, "cancelled"),
                      providers_to_try[attempt_index], inflight.model, emitted, events)
    /\ UNCHANGED <<now, credVars, envVars, traces, instances, request, provider_override,
                   providers_to_try>>
    /\ UNCHANGED <<apiVars, teleVars, normVars, ctxVars>>

\* the task is cancelled at `await client.post`: CancelledError passes the adapter's
\* `except httpx.RequestError`, the loop's `except ProviderUnavailableError`, the ingress'
\* except clauses and the handler registered for Exception
Cancelled ==
    /\ pc = "inflight"
    /\ attempts' = [attempts EXCEPT ![Len(attempts)].error = CancelledError,
                                    ![Len(attempts)].ended = TRUE]
    /\ result' = Raised(CancelledError)
    /\ pc' = "cancelled"
    /\ inflight' = NoInflight
    /\ UNCHANGED <<now, credVars, envVars, storeVars, instances, request, provider_override,
                   providers_to_try, attempt_index, last_failed, final_failure, emitted>>
    /\ UNCHANGED <<apiVars, teleVars, normVars, ctxVars>>

SelCancelNext ==
    \/ \E model \in RequestModels, override \in ProviderIds \cup {NULL} :
          Begin(model, override)
    \/ NextCandidate
    \/ Response
    \/ Exhausted
    \/ Ingress
    \/ Cancelled

SpecSelectorCancel == SelInit /\ [][SelCancelNext]_vars

(***************************************************************************)
(* Provider state, adapter calls and admin endpoints                       *)
(* (app/router/selector.py, app/providers/*.py, app/api/admin.py)          *)
(***************************************************************************)
\* ProviderState.has_api_key: a row with a non-empty api_key
has_api_key(tbl, pid) == get_api_key(tbl, pid) \notin {NULL, ""}

\* a ProviderState.is_available that looks at the api key only
is_available_KeyOnly(tbl, pid) == has_api_key(tbl, pid)

\* ProviderState.is_available: an api key and no last_error
is_available(tbl, pid) ==
    /\ has_api_key(tbl, pid)
    /\ \A r \in CredRowsOf(tbl, pid) : r.last_error \in {NULL, ""}

\* a chat_completions that records the credential error "auth" when no key is stored
chat_completions_RecordMissing(pid, req_model, outcome, tbl, logs, t) ==
    IF get_api_key(tbl, pid) \in {NULL, ""}
    THEN [creds |-> record_error(tbl, pid, "auth", t), traces |-> logs,
          error |-> AuthenticationRequiredError(pid), response |-> NoResponse,
          http |-> FALSE]
    ELSE LET r == _post_chat(pid, outcome, req_model, tbl, logs, TRUE, t)
         IN  [creds |-> r.creds, traces |-> r.traces, error |-> r.error,
              response |-> IF r.error = NoError
                           THEN NormalizedResponse(pid, r.data, req_model)
                           ELSE NoResponse,
              http |-> TRUE]

\* an adapter's chat_completions, with the answer of its vendor
chat_completions(pid, req_model, outcome, tbl, logs, t) ==
    IF get_api_key(tbl, pid) \in {NULL, ""}
    THEN [creds |-> tbl, traces |-> logs, error |-> AuthenticationRequiredError(pid),
          response |-> NoResponse, http |-> FALSE]
    ELSE LET r == _post_chat(pid, outcome, req_model, tbl, logs, TRUE, t)
         IN  [creds |-> r.creds, traces |-> r.traces, error |-> r.error,
              response |-> IF r.error = NoError
                           THEN NormalizedResponse(pid, r.data, req_model)
                           ELSE NoResponse,
              http |-> TRUE]

\* a validate_api_key that posts with error tracking on
validate_api_key_Tracking(provider_model, api_key, outcome, tbl, logs, t) ==
    IF provider_model.default = ""
    THEN [creds |-> tbl, traces |-> logs, http |-> FALSE, called |-> TRUE, key |-> api_key,
          error |-> ProviderUnavailableError(provider_model.id,
                                             "Health check model not configured")]
    ELSE LET r == _post_chat(provider_model.id, outcome, provider_model.default, tbl,
                             logs, TRUE, t)
         IN  [creds |-> r.creds, traces |-> r.traces, http |-> TRUE, called |-> TRUE,
              key |-> api_key, error |-> r.error]

\* a validate_api_key that writes the request it sent, api key included, to the traces
validate_api_key_LogsKey(provider_model, api_key, outcome, tbl, logs, t) ==
    IF provider_model.default = ""
    THEN [creds |-> tbl, traces |-> logs, http |-> FALSE, called |-> TRUE, key |-> api_key,
          error |-> ProviderUnavailableError(provider_model.id,
                                             "Health check model not configured")]
    ELSE LET r == _post_chat(provider_model.id, outcome, provider_model.default, tbl,
                             logs, FALSE, t)
         IN  [creds |-> r.creds,
              traces |-> record_provider_log(r.traces, provider_model.id, api_key,
                                             "data", 0, t),
              http |-> TRUE, called |-> TRUE, key |-> api_key, error |-> r.error]

\* an adapter's validate_api_key: a health call with the provider's default model
validate_api_key(provider_model, api_key, outcome, tbl, logs, t) ==
    IF provider_model.default = ""
    THEN [creds |-> tbl, traces |-> logs, http |-> FALSE, called |-> TRUE, key |-> api_key,
          error |-> ProviderUnavailableError(provider_model.id,
                                             "Health check model not configured")]
    ELSE LET r == _post_chat(provider_model.id, outcome, provider_model.default, tbl,
                             logs, FALSE, t)
         IN  [creds |-> r.creds, traces |-> r.traces, http |-> TRUE, called |-> TRUE,
              key |-> api_key, error |-> r.error]

\* an admin event: no model, no target provider, no attempt number
AdminEvent(kind, level, provider_id, message) ==
    Event(kind, level, provider_id, NULL, NULL, message, 0)

\* what an admin handler leaves behind: the stores, the events it recorded, its HTTP
\* status, the stores as validate_api_key left them, whether that call was made and
\* whether it issued an HTTP request, the error raised
AdminResult(tbl, evs, logs, emitted_events, status, v) ==
    [creds |-> tbl, events |-> evs, traces |-> logs, emitted |-> emitted_events,
     status |-> status, validated |-> [creds |-> v.creds, traces |-> v.traces, key |-> v.key],
     http |-> v.http, called |-> v.called, error |-> v.error]

\* a handler that did not reach the adapter
NotValidated(tbl, logs) ==
    [creds |-> tbl, traces |-> logs, http |-> FALSE, called |-> FALSE, error |-> NoError,
     key |-> ""]

\* an exception that no handler catches: unexpected_exception_handler answers
Uncaught(exc, evs, v, t) ==
    LET h == unexpected_exception_handler(exc, evs, t)
    IN  AdminResult(v.creds, h.events, v.traces, h.emitted, h.status, [v EXCEPT !.error = exc])

\* a set_provider_key that treats a rejected key like a failed health check
set_provider_key_auth_required_NoRecord(provider_id, evs, v, t) ==
    LET ev == AdminEvent("provider_health_fail", "WARNING", provider_id, v.error.message)
    IN  AdminResult(v.creds, record_event(evs, ev, t), v.traces, <<ev>>, 503, v)

\* set_provider_key, except AuthenticationRequiredError
set_provider_key_auth_required(provider_id, evs, v, t) ==
    LET ev == AdminEvent("provider_credentials_invalid", "WARNING", provider_id,
                         "Credential validation failed: invalid API key")
    IN  AdminResult(record_error(v.creds, provider_id, "auth", t),
                    record_event(evs, ev, t), v.traces, <<ev>>, 400, v)

\* a set_provider_key that records the failure of the health call as a credential error
set_provider_key_unavailable_RecordError(provider_id, evs, v, t) ==
    LET ev == AdminEvent("provider_health_fail", "WARNING", provider_id, v.error.message)
    IN  AdminResult(record_error(v.creds, provider_id, v.error.message, t),
                    record_event(evs, ev, t), v.traces, <<ev>>, 503, v)

\* a set_provider_key that saves the key although its health call failed
set_provider_key_unavailable_SavesKey(provider_id, evs, v, t) ==
    LET ev == AdminEvent("provider_health_fail", "WARNING", provider_id, v.error.message)
    IN  AdminResult(upsert_api_key(v.creds, provider_id, v.key, t),
                    record_event(evs, ev, t), v.traces, <<ev>>, 503, v)

\* set_provider_key, except ProviderUnavailableError
set_provider_key_unavailable(provider_id, evs, v, t) ==
    LET ev == AdminEvent("provider_health_fail", "WARNING", provider_id, v.error.message)
    IN  AdminResult(v.creds, record_event(evs, ev, t), v.traces, <<ev>>, 503, v)

\* the provider of a configuration with the given id, as a set of at most one
ProviderLookup(cfg, provider_id) == {cfg[i] : i \in {j \in 1..Len(cfg) : cfg[j].id = provider_id}}

\* POST /admin/providers/{provider_id}/credentials
set_provider_key(cfg, provider_id, api_key, form, outcome, tbl, evs, logs, t) ==
    LET none == NotValidated(tbl, logs)
        found == ProviderLookup(cfg, provider_id)
    IN  IF api_key = "" THEN AdminResult(tbl, evs, logs, <<>>, 400, none)
        ELSE IF found = {} THEN AdminResult(tbl, evs, logs, <<>>, 404, none)
        ELSE LET provider_model == CHOOSE p \in found : TRUE
                 v == validate_api_key(provider_model, api_key, outcome, tbl, logs, t)
                 ev == AdminEvent("provider_credentials_updated", "INFO", provider_id,
                                  "API key saved via admin")
             IN  IF get_adapter(provider_model) # NoError
                 THEN Uncaught(get_adapter(provider_model), evs, none, t)
                 ELSE IF v.error.kind = "AuthenticationRequiredError"
                 THEN set_provider_key_auth_required(provider_id, evs, v, t)
                 ELSE IF v.error.kind = "ProviderUnavailableError"
                 THEN set_provider_key_unavailable(provider_id, evs, v, t)
                 ELSE IF v.error # NoError THEN Uncaught(v.error, evs, v, t)
                 ELSE AdminResult(upsert_api_key(v.creds, provider_id, api_key, t),
                                  record_event(evs, ev, t), v.traces, <<ev>>,
                                  IF form THEN 303 ELSE 200, v)

\* POST /admin/providers/{provider_id}/healthcheck
healthcheck_provider(cfg, provider_id, outcome, tbl, evs, logs, t) ==
    LET none == NotValidated(tbl, logs)
        found == ProviderLookup(cfg, provider_id)
        api_key_value == get_api_key(tbl, provider_id)
    IN  IF found = {} THEN AdminResult(tbl, evs, logs, <<>>, 404, none)
        ELSE IF api_key_value \in {NULL, ""} THEN AdminResult(tbl, evs, logs, <<>>, 400, none)
        ELSE LET provider_model == CHOOSE p \in found : TRUE
                 v == validate_api_key(provider_model, api_key_value, outcome, tbl, logs, t)
                 invalid == AdminEvent("provider_health_fail", "WARNING", provider_id,
                                       "Health check failed: invalid API key")
                 failed == AdminEvent("provider_health_fail", "WARNING", provider_id,
                                      v.error.message)
                 ok == AdminEvent("provider_health_ok", "INFO", provider_id,
                                  "Health check succeeded")
             IN  IF get_adapter(provider_model) # NoError
                 THEN Uncaught(get_adapter(provider_model), evs, none, t)
                 ELSE IF v.error.kind = "AuthenticationRequiredError"
                 THEN AdminResult(record_error(v.creds, provider_id, "auth", t),
                                  record_event(evs, invalid, t), v.traces, <<invalid>>,
                                  400, v)
                 ELSE IF v.error.kind = "ProviderUnavailableError"
                 THEN AdminResult(record_error(v.creds, provider_id, v.error.message, t),
                                  record_event(evs, failed, t), v.traces, <<failed>>,
                                  503, v)
                 ELSE IF v.error # NoError THEN Uncaught(v.error, evs, v, t)
                 ELSE AdminResult(clear_error(v.creds, provider_id, t),
                                  record_event(evs, ok, t), v.traces, <<ok>>, 303, v)

\* DELETE /admin/providers/{provider_id}/credentials and its POST form
delete_provider_key(provider_id, form, tbl, evs, logs) ==
    LET d == delete_api_key(tbl, provider_id)
    IN  AdminResult(d.tbl, evs, logs, <<>>,
                    IF ~d.ret THEN 404 ELSE IF form THEN 303 ELSE 200,
                    NotValidated(tbl, logs))

(***************************************************************************)
(* Admin and adapter calls, one at a time, on any stored credentials       *)
(***************************************************************************)
\* what the history keeps of a call: its input, its effects, the stores before it
AdminRecord(op, provider_id, api_key, outcome, response, r) ==
    [op |-> op, provider_id |-> provider_id, api_key |-> api_key, outcome |-> outcome,
     status |-> r.status, error |-> r.error, http |-> r.http, called |-> r.called,
     response |-> response,
     creds_before |-> creds, events_before |-> events, traces_before |-> traces,
     validated |-> r.validated, emitted |-> r.emitted]

\* the stores after a call
AdminEffect(r) ==
    /\ creds' = r.creds
    /\ events' = r.events
    /\ traces' = r.traces
    /\ admin_count' = admin_count + 1
    /\ UNCHANGED <<now, cred_op, cred_count, cproc, envVars, selVars, http_response,
                   teleVars, normVars, ctxVars>>

\* the answers of a vendor to a health call: the reported model name plays no role
HealthOutcomes == Outcomes \ {"ok_model"}

SetProviderKey(p, k, form, outcome) ==
    /\ admin_count < MaxAdminOps
    /\ LET r == set_provider_key(config, p, k, form, outcome, creds, events, traces, now)
       IN  /\ r.http \/ outcome = "ok"
           /\ r.status \in {200, 303} \/ ~form
           /\ admin_op' = AdminRecord("set_provider_key", p, k, outcome, NoResponse, r)
           /\ AdminEffect(r)

HealthcheckProvider(p, outcome) ==
    /\ admin_count < MaxAdminOps
    /\ LET r == healthcheck_provider(config, p, outcome, creds, events, traces, now)
       IN  /\ r.http \/ outcome = "ok"
           /\ admin_op' = AdminRecord("healthcheck_provider", p, "", outcome, NoResponse, r)
           /\ AdminEffect(r)

DeleteProviderKey(p, form) ==
    /\ admin_count < MaxAdminOps
    /\ LET r == delete_provider_key(p, form, creds, events, traces)
       IN  /\ r.status \in {200, 303} \/ ~form
           /\ admin_op' = AdminRecord("delete_provider_key", p, "", "ok", NoResponse, r)
           /\ AdminEffect(r)

\* an adapter's chat_completions is called with a request whose model is resolved
ChatCompletions(p, model, outcome) ==
    /\ admin_count < MaxAdminOps
    /\ LET c == chat_completions(p, model, outcome, creds, traces, now)
           r == AdminResult(c.creds, events, c.traces, <<>>, 0,
                            [creds |-> creds, traces |-> traces, http |-> c.http,
                             called |-> FALSE, error |-> c.error, key |-> ""])
       IN  /\ c.http \/ outcome = "ok"
           /\ admin_op' = AdminRecord("chat_completions", p, "", outcome, c.response, r)
           /\ AdminEffect(r)

\* the configurations of the admin runs: two providers, the first ahead of the second
AdminConfigs ==
    {cfg \in Configs : Len(cfg) = 2 /\ cfg[1].priority = 10 /\ cfg[2].priority = 20}

AdminInit ==
    /\ now = 1
    /\ cred_op = NoCredOp
    /\ cred_count = 0
    /\ cproc = [c \in 1..MaxProcs |-> IdleProc]
    /\ config \in AdminConfigs
    /\ \E st \in [ProviderIds -> CredStates] :
          /\ \A p \in ProviderIds \ CredIds : st[p] = "none"
          /\ creds = InitialCreds(st)
    /\ vendor = [p \in ProviderIds |-> "ok"]
    /\ events = <<>>
    /\ traces = <<>>
    /\ instances = {}
    /\ pc = "unused"
    /\ request = [model |-> ""]
    /\ provider_override = NULL
    /\ providers_to_try = <<>>
    /\ attempt_index = 1
    /\ last_failed = NoFailure
    /\ final_failure = NoFinalFailure
    /\ inflight = NoInflight
    /\ attempts = <<>>
    /\ emitted = <<>>
    /\ result = Pending
    /\ ApiUnused

AdminNext ==
    \/ \E p \in ProviderIds, k \in Keys \cup {""}, form \in BOOLEAN,
          outcome \in HealthOutcomes : SetProviderKey(p, k, form, outcome)
    \/ \E p \in ProviderIds, outcome \in HealthOutcomes : HealthcheckProvider(p, outcome)
    \/ \E p \in ProviderIds, form \in BOOLEAN : DeleteProviderKey(p, form)
    \/ \E p \in ProviderIds \cap AdapterMap, outcome \in Outcomes :
          ChatCompletions(p, "gpt-x", outcome)

SpecAdmin == AdminInit /\ [][AdminNext]_vars

(***************************************************************************)
(* Reads of the telemetry tables (app/telemetry/events.py,                 *)
(* app/storage/provider_logs.py, app/api/admin.py)                         *)
(***************************************************************************)
\* the upper limit list_events clamps to, and the default limit of list_provider_logs
MAX_EVENTS_LIMIT == 100
DEFAULT_LOGS_LIMIT == 100

\* how the database orders rows of equal time under ORDER BY ... DESC
TieOrders == {"rowid_asc", "rowid_desc"}

\* ORDER BY time DESC over the rows I of a table whose rows have the given times
RECURSIVE OrderByDesc(_, _, _)
OrderByDesc(times, I, tie) ==
    IF I = {} THEN <<>>
    ELSE LET first == CHOOSE i \in I : \A j \in I \ {i} :
                          \/ times[i] > times[j]
                          \/ /\ times[i] = times[j]
                             /\ IF tie = "rowid_asc" THEN i < j ELSE i > j
         IN  <<first>> \o OrderByDesc(times, I \ {first}, tie)

\* LIMIT n
Limit(rows, n) == IF Len(rows) > n THEN SubSeq(rows, 1, n) ELSE rows

\* a list_recent_events that selects without pruning first
list_recent_events_NoPrune(tbl, limit, tie, t) ==
    IF ~events_enabled THEN [tbl |-> tbl, rows |-> <<>>, raised |-> FALSE]
    ELSE IF "events" \in store_down THEN [tbl |-> tbl, rows |-> <<>>, raised |-> TRUE]
    ELSE LET cutoff == _current_retention_cutoff(t)
             I == {i \in 1..Len(tbl) : tbl[i].ts >= cutoff}
             order == OrderByDesc([i \in 1..Len(tbl) |-> tbl[i].ts], I, tie)
         IN  [tbl |-> tbl,
              rows |-> Limit([k \in 1..Len(order) |-> tbl[order[k]]], limit),
              raised |-> FALSE]

\* list_recent_events: nothing with events disabled; else prune, then select the rows
\* from the cutoff on, newest first, at most limit; a failing transaction raises
list_recent_events(tbl, limit, tie, t) ==
    IF ~events_enabled THEN [tbl |-> tbl, rows |-> <<>>, raised |-> FALSE]
    ELSE IF "events" \in store_down THEN [tbl |-> tbl, rows |-> <<>>, raised |-> TRUE]
    ELSE LET cutoff == _current_retention_cutoff(t)
             pruned == _prune_old_events(tbl, t)
             I == {i \in 1..Len(pruned) : pruned[i].ts >= cutoff}
             order == OrderByDesc([i \in 1..Len(pruned) |-> pruned[i].ts], I, tie)
         IN  [tbl |-> pruned,
              rows |-> Limit([k \in 1..Len(order) |-> pruned[order[k]]], limit),
              raised |-> FALSE]

\* GET /admin/events: the limit is clamped to 1..100
limit_value(limit) ==
    IF limit > MAX_EVENTS_LIMIT THEN MAX_EVENTS_LIMIT ELSE IF limit < 1 THEN 1 ELSE limit

list_events(tbl, limit, tie, t) == list_recent_events(tbl, limit_value(limit), tie, t)

\* a list_provider_logs that forgets the provider filter
list_provider_logs_AllProviders(tbl, pid, limit, tie, t) ==
    IF "provider_logs" \in store_down THEN [rows |-> <<>>, raised |-> TRUE]
    ELSE LET I == {i \in 1..Len(tbl) : tbl[i].created_at >= _start_of_today(t)}
             order == OrderByDesc([i \in 1..Len(tbl) |-> tbl[i].created_at], I, tie)
         IN  [rows |-> Limit([k \in 1..Len(order) |-> tbl[order[k]]], limit),
              raised |-> FALSE]

\* list_provider_logs: the provider's rows of today, newest first, at most limit
list_provider_logs(tbl, pid, limit, tie, t) ==
    IF "provider_logs" \in store_down THEN [rows |-> <<>>, raised |-> TRUE]
    ELSE LET I == {i \in 1..Len(tbl) : /\ tbl[i].provider_id = pid
                                        /\ tbl[i].created_at >= _start_of_today(t)}
             order == OrderByDesc([i \in 1..Len(tbl) |-> tbl[i].created_at], I, tie)
         IN  [rows |-> Limit([k \in 1..Len(order) |-> tbl[order[k]]], limit),
              raised |-> FALSE]

(***************************************************************************)
(* Direct calls of the telemetry functions on tables of any age            *)
(***************************************************************************)
\* what the history keeps of a call
TeleRecord(op, provider_id, limit, ret) ==
    [op |-> op, provider_id |-> provider_id, limit |-> limit, enabled |-> events_enabled,
     down |-> store_down, at |-> now, ret |-> ret, events_before |-> events,
     traces_before |-> traces]

TeleFrame ==
    /\ tele_count' = tele_count + 1
    /\ UNCHANGED <<now, credVars, envVars, selVars, apiVars, events_enabled, store_down,
                   normVars, ctxVars>>

RecordEvent(kind) ==
    /\ tele_count < MaxTeleOps
    /\ events' = record_event(events, Event(kind, "INFO", NULL, NULL, NULL, "kept", 0), now)
    /\ tele_op' = TeleRecord("record_event", "", 0, <<>>)
    /\ UNCHANGED traces
    /\ TeleFrame

ListEvents(limit, tie) ==
    /\ tele_count < MaxTeleOps
    /\ LET r == list_events(events, limit, tie, now)
       IN  /\ events' = r.tbl
           /\ tele_op' = TeleRecord(IF r.raised THEN "list_events_raised" ELSE "list_events",
                                    "", limit, r.rows)
    /\ UNCHANGED traces
    /\ TeleFrame

RecordProviderLog(p) ==
    /\ tele_count < MaxTeleOps
    /\ traces' = record_provider_log(traces, p, "gpt-x", "data", 200, now)
    /\ tele_op' = TeleRecord("record_provider_log", p, 0, <<>>)
    /\ UNCHANGED events
    /\ TeleFrame

ListProviderLogs(p, limit, tie) ==
    /\ tele_count < MaxTeleOps
    /\ LET r == list_provider_logs(traces, p, limit, tie, now)
       IN  tele_op' = TeleRecord(IF r.raised THEN "list_provider_logs_raised"
                                 ELSE "list_provider_logs", p, limit, r.rows)
    /\ UNCHANGED <<events, traces>>
    /\ TeleFrame

\* a table starts or stops failing
StoreFlip(tbl) ==
    /\ tele_count < MaxTeleOps
    /\ store_down' = IF tbl \in store_down THEN store_down \ {tbl} ELSE store_down \cup {tbl}
    /\ UNCHANGED <<now, credVars, envVars, storeVars, selVars, apiVars, events_enabled,
                   tele_op, tele_count, normVars, ctxVars>>

\* the rows earlier runs of the program left in a table: times in clock order
SeedTimes(t) ==
    {s \in UNION {[1..n -> 0..t] : n \in 0..MaxRows} :
        \A i \in 1..Len(s) - 1 : s[i] <= s[i + 1]}

SeedEvent(t) == Event("provider_test", "INFO", NULL, NULL, NULL, "seed", 0) @@ [ts |-> t]

TelemetryInit ==
    /\ now \in 0..MaxNow
    /\ cred_op = NoCredOp
    /\ cred_count = 0
    /\ cproc = [c \in 1..MaxProcs |-> IdleProc]
    /\ config = <<>>
    /\ creds = {}
    /\ vendor = [p \in ProviderIds |-> "ok"]
    /\ \E s \in SeedTimes(now) : events = [i \in 1..Len(s) |-> SeedEvent(s[i])]
    /\ \E s \in SeedTimes(now) :
          traces = [i \in 1..Len(s) |->
                       ProviderLog(IF i = 1 THEN "cerebras" ELSE "gemini", "gpt-x", "data",
                                   200, s[i])]
    /\ events = <<>> \/ traces = <<>>
    /\ instances = {}
    /\ pc = "unused"
    /\ request = [model |-> ""]
    /\ provider_override = NULL
    /\ providers_to_try = <<>>
    /\ attempt_index = 1
    /\ last_failed = NoFailure
    /\ final_failure = NoFinalFailure
    /\ inflight = NoInflight
    /\ attempts = <<>>
    /\ emitted = <<>>
    /\ result = Pending
    /\ http_response = NoHttpResponse
    /\ admin_op = NoAdminOp
    /\ admin_count = 0
    /\ events_enabled \in BOOLEAN
    /\ store_down = {}
    /\ tele_op = NoTeleOp
    /\ tele_count = 0
    /\ NormUnused

EventLimits == {0, 1, 2, MAX_EVENTS_LIMIT + 1}
LogLimits == {1, DEFAULT_LOGS_LIMIT}

TelemetryNext ==
    \/ Tick
    \/ \E tbl \in Tables : StoreFlip(tbl)
    \/ \E kind \in {"provider_test"} : RecordEvent(kind)
    \/ \E limit \in EventLimits, tie \in TieOrders : ListEvents(limit, tie)
    \/ \E p \in {"cerebras", "gemini"} : RecordProviderLog(p)
    \/ \E p \in {"cerebras", "gemini"}, limit \in LogLimits, tie \in TieOrders :
          ListProviderLogs(p, limit, tie)

SpecTelemetry == TelemetryInit /\ [][TelemetryNext]_vars

(***************************************************************************)
(* The selector's runs while the telemetry tables fail and recover         *)
(***************************************************************************)
\* a telemetry table starts or stops failing while select_provider runs
FaultFlip(tbl) ==
    /\ pc \in {"loop", "inflight"}
    /\ StoreFlip(tbl)

\* one vendor answer of each kind the loop tells apart: a response, a failure it
\* catches, a rejected key, an exception it does not catch
FaultOutcomes == {"ok", "network", "http_401", "not_json"}

SelFaultInit ==
    /\ SelInit
    /\ \A p \in ProviderIds : vendor[p] \in FaultOutcomes
    /\ \A r \in creds : r.last_error = NULL

SelFaultNext ==
    \/ \E model \in RequestModels, override \in ProviderIds \cup {NULL} :
          Begin(model, override)
    \/ NextCandidate
    \/ Response
    \/ Exhausted
    \/ \E tbl \in Tables : FaultFlip(tbl)

SpecSelectorFault == SelFaultInit /\ [][SelFaultNext]_vars

(***************************************************************************)
(* The selector over every state of a credential row: none, a key, a key   *)
(* with a recorded error, and the keyless row that record_error inserts    *)
(***************************************************************************)
RowStates == CredStates \cup {"empty_error"}

RowsIn(st) ==
    {[id |-> InitialRowId(p), provider_id |-> p,
      api_key |-> IF st[p] = "empty_error" THEN "" ELSE "k1",
      last_error |-> IF st[p] \in {"key_error", "empty_error"} THEN "rate_limit" ELSE NULL,
      last_error_at |-> IF st[p] \in {"key_error", "empty_error"} THEN 1 ELSE NoTime,
      updated_at |-> 1] : p \in {q \in ProviderIds : st[q] # "none"}}

SelRowsInit ==
    /\ now = 1
    /\ cred_op = NoCredOp
    /\ cred_count = 0
    /\ cproc = [c \in 1..MaxProcs |-> IdleProc]
    /\ config \in Configs
    /\ \E st \in [ProviderIds -> RowStates] :
          /\ \A p \in ProviderIds : p \notin ConfiguredIds(config) => st[p] = "none"
          /\ creds = RowsIn(st)
          /\ vendor \in {v \in [ProviderIds -> FaultOutcomes] :
                            \A p \in ProviderIds :
                               ~(Contacted(config, st, p) /\ st[p] # "empty_error")
                                   => v[p] = "ok"}
    /\ events = <<>>
    /\ traces = <<>>
    /\ instances = {}
    /\ pc = "idle"
    /\ request = [model |-> ""]
    /\ provider_override = NULL
    /\ providers_to_try = <<>>
    /\ attempt_index = 1
    /\ last_failed = NoFailure
    /\ final_failure = NoFinalFailure
    /\ inflight = NoInflight
    /\ attempts = <<>>
    /\ emitted = <<>>
    /\ result = Pending
    /\ ApiUnused

SpecSelectorRows == SelRowsInit /\ [][SelNext]_vars

(***************************************************************************)
(* Response normalization (app/providers/cohere.py, app/providers/gemini.py)*)
(***************************************************************************)
\* an item of Cohere's message.content; a text of NULL is a text that is no string
Item(type, text, source_type, url, data, media_type) ==
    [type |-> type, text |-> text, source_type |-> source_type, url |-> url,
     data |-> data, media_type |-> media_type]

\* a part of the normalized message.content
TextPart(text) == [type |-> "text", text |-> text, url |-> NULL, media_type |-> NULL]
ImagePart(url, media_type) ==
    [type |-> "image_url", text |-> NULL, url |-> url, media_type |-> media_type]
NoPart == [type |-> "none", text |-> NULL, url |-> NULL, media_type |-> NULL]

\* a _convert_response_content_item that knows url sources only
_convert_response_content_item_UrlOnly(item) ==
    IF item.type = "image" /\ item.source_type = "url" /\ item.url # NULL
    THEN ImagePart(item.url, item.media_type)
    ELSE NoPart

\* CohereProvider._convert_response_content_item: an image with a url source or a
\* base64 source becomes an image_url part, anything else nothing
_convert_response_content_item(item) ==
    IF item.type = "image" /\ item.source_type = "url" /\ item.url # NULL
    THEN ImagePart(item.url, item.media_type)
    ELSE IF item.type = "image" /\ item.source_type = "base64" /\ item.data # NULL
    THEN ImagePart("data:" \o (IF item.media_type = NULL THEN "image/png"
                               ELSE item.media_type) \o ";base64," \o item.data,
                   NULL)
    ELSE NoPart

\* the loop of _normalize_response over the content items: ordered_content
RECURSIVE ordered_content(_)
ordered_content(items) ==
    IF items = <<>> THEN <<>>
    ELSE LET item == Head(items)
             rest == ordered_content(Tail(items))
         IN  IF item.type = "text"
             THEN IF item.text # NULL THEN <<TextPart(item.text)>> \o rest ELSE rest
             ELSE IF item.type \in {"tool_calls", "citation"} THEN rest
             ELSE IF _convert_response_content_item(item) # NoPart
             THEN <<_convert_response_content_item(item)>> \o rest
             ELSE rest

\* the loop of _normalize_response over the content items: has_non_text
has_non_text(items) ==
    \E i \in 1..Len(items) :
       /\ items[i].type \notin {"text", "tool_calls", "citation"}
       /\ _convert_response_content_item(items[i]) # NoPart

\* "".join(part.get("text", "") for part in parts)
RECURSIVE JoinText(_)
JoinText(parts) ==
    IF parts = <<>> THEN ""
    ELSE (IF Head(parts).text = NULL THEN "" ELSE Head(parts).text) \o JoinText(Tail(parts))

\* the tool calls and the citations the loop collects: one per item of the kind
CollectKind(items, kind) == SelectSeq(items, LAMBDA item : item.type = kind)

\* Python's "a or b" on two counts: 0 and a missing count are false
PyOr(a, b) == IF a # Absent /\ a # 0 THEN a ELSE b

\* a normalized usage object; present is false for None
Usage(prompt_tokens, completion_tokens, total_tokens) ==
    [present |-> {prompt_tokens, completion_tokens, total_tokens} # {Absent},
     prompt_tokens |-> prompt_tokens, completion_tokens |-> completion_tokens,
     total_tokens |-> total_tokens]

\* CohereProvider._normalize_usage
Cohere_normalize_usage(usage) ==
    IF usage = NoUsage THEN Usage(Absent, Absent, Absent)
    ELSE LET prompt_tokens == IF usage.has_tokens
                              THEN PyOr(usage.tokens.input, usage.tokens.prompt)
                              ELSE usage.prompt_tokens
             completion_tokens == IF usage.has_tokens
                                  THEN PyOr(usage.tokens.output, usage.tokens.generation)
                                  ELSE usage.completion_tokens
             total_tokens == IF usage.has_tokens THEN usage.tokens.total
                             ELSE usage.total_tokens
         IN  Usage(prompt_tokens, completion_tokens,
                   IF total_tokens = Absent /\ prompt_tokens # Absent
                      /\ completion_tokens # Absent
                   THEN prompt_tokens + completion_tokens
                   ELSE total_tokens)

\* GeminiProvider._normalize_usage
Gemini_normalize_usage(usage) ==
    IF usage = NoUsage THEN Usage(Absent, Absent, Absent)
    ELSE LET prompt == usage.promptTokenCount
             completion == usage.candidatesTokenCount
             total == usage.totalTokenCount
         IN  Usage(prompt, completion,
                   IF total # Absent THEN total
                   ELSE IF prompt # Absent /\ completion # Absent
                   THEN prompt + completion
                   ELSE Absent)

\* CohereProvider._normalize_response: the message and the usage of the response
Cohere_normalize_response(data) ==
    LET from_items == ordered_content(data.content)
        parts == IF from_items = <<>> /\ data.text \notin {NULL, ""}
                 THEN <<TextPart(data.text)>>
                 ELSE from_items
        tool_calls == CollectKind(data.content, "tool_calls")
        content == IF parts # <<>>
                   THEN IF ~has_non_text(data.content)
                           /\ \A k \in 1..Len(parts) : parts[k].type = "text"
                        THEN [is_list |-> FALSE, text |-> JoinText(parts), parts |-> <<>>]
                        ELSE [is_list |-> TRUE, text |-> "", parts |-> parts]
                   ELSE [is_list |-> FALSE, text |-> "", parts |-> <<>>]
    IN  [by |-> "cohere", content |-> content, tool_calls |-> tool_calls,
         citations |-> CollectKind(data.content, "citation"),
         usage |-> Cohere_normalize_usage(data.usage)]

\* GeminiProvider._normalize_response: the usage of the response
Gemini_normalize_response(data) ==
    [NotNormalized EXCEPT !.by = "gemini", !.usage = Gemini_normalize_usage(data.usage)]

(***************************************************************************)
(* Normalization of any vendor body                                        *)
(***************************************************************************)
\* longest message.content
MaxItems == 3
\* largest token count
MaxTokens == 2

\* the content items of the vendor bodies
ContentItems ==
    {Item("text", "a", NULL, NULL, NULL, NULL),
     Item("text", "b", NULL, NULL, NULL, NULL),
     Item("text", NULL, NULL, NULL, NULL, NULL),
     Item("tool_calls", NULL, NULL, NULL, NULL, NULL),
     Item("citation", NULL, NULL, NULL, NULL, NULL),
     Item("image", NULL, "url", "https://x/y.png", NULL, "image/png"),
     Item("image", NULL, "base64", NULL, "AAAA", NULL),
     Item("image", NULL, "file", NULL, NULL, NULL),
     Item("thinking", "c", NULL, NULL, NULL, NULL)}

Counts == {Absent} \cup 0..MaxTokens

\* usage objects: Cohere's tokens object, the OpenAI keys, Gemini's keys
TokenUsages ==
    {[NoUsage EXCEPT !.has_tokens = TRUE, !.tokens = t] :
        t \in [input : Counts, prompt : {Absent, 1}, output : Counts,
               generation : {Absent, 1}, total : Counts]}
OpenAIUsages ==
    {[NoUsage EXCEPT !.prompt_tokens = u[1], !.completion_tokens = u[2],
                     !.total_tokens = u[3]] : u \in Counts \X Counts \X Counts}
GeminiUsages ==
    {[NoUsage EXCEPT !.promptTokenCount = u[1], !.candidatesTokenCount = u[2],
                     !.totalTokenCount = u[3]] : u \in Counts \X Counts \X Counts}

\* a body with content and no usage, or a body with usage and one text item
VendorBodies ==
    {[content |-> c, text |-> t, usage |-> NoUsage] :
        c \in UNION {[1..n -> ContentItems] : n \in 0..MaxItems}, t \in {NULL, "", "d"}}
    \cup {[content |-> <<Item("text", "a", NULL, NULL, NULL, NULL)>>, text |-> NULL,
           usage |-> u] : u \in TokenUsages \cup OpenAIUsages \cup GeminiUsages}

CohereNormalize ==
    /\ normalized = NotNormalized
    /\ normalized' = Cohere_normalize_response(vendor_body)
    /\ UNCHANGED <<now, credVars, envVars, storeVars, selVars, apiVars, teleVars,
                   vendor_body, ctxVars>>

GeminiNormalize ==
    /\ normalized = NotNormalized
    /\ normalized' = Gemini_normalize_response(vendor_body)
    /\ UNCHANGED <<now, credVars, envVars, storeVars, selVars, apiVars, teleVars,
                   vendor_body, ctxVars>>

NormInit ==
    /\ now = 0
    /\ cred_op = NoCredOp
    /\ cred_count = 0
    /\ cproc = [c \in 1..MaxProcs |-> IdleProc]
    /\ config = <<>>
    /\ creds = {}
    /\ vendor = [p \in ProviderIds |-> "ok"]
    /\ events = <<>>
    /\ traces = <<>>
    /\ instances = {}
    /\ pc = "unused"
    /\ request = [model |-> ""]
    /\ provider_override = NULL
    /\ providers_to_try = <<>>
    /\ attempt_index = 1
    /\ last_failed = NoFailure
    /\ final_failure = NoFinalFailure
    /\ inflight = NoInflight
    /\ attempts = <<>>
    /\ emitted = <<>>
    /\ result = Pending
    /\ http_response = NoHttpResponse
    /\ admin_op = NoAdminOp
    /\ admin_count = 0
    /\ TelemetryUnused
    /\ vendor_body \in VendorBodies
    /\ normalized = NotNormalized
    /\ CtxUnused

NormNext ==
    \/ CohereNormalize
    \/ GeminiNormalize

SpecNorm == NormInit /\ [][NormNext]_vars

(***************************************************************************)
(* Request context: RequestContextMiddleware binds a request id to the     *)
(* ContextVar _REQUEST_ID_CTX, record_event and record_provider_log read   *)
(* it.  Every request runs in a task of its own, and a ContextVar is read  *)
(* and written in the context of the running task, so request_id_ctx has   *)
(* one value per request.  unexpected_exception_handler is registered for  *)
(* Exception, which places it in the server-error layer outside every      *)
(* middleware added with add_middleware.                                   *)
(***************************************************************************)

MaxWrites == 2

\* the X-Request-Id values of the clients; "" is a missing or an empty header
Headers == {"", "a", "b"}

\* uuid.uuid4().hex: fresh for each request
uuid4(r) == <<"u1", "u2", "u3", "u4">>[r]

\* logging.py: set_request_id, the pair of the new context and the token (the old value)
set_request_id(ctx, r, request_id) ==
    [ctx |-> [ctx EXCEPT ![r] = request_id], token |-> ctx[r]]

\* logging.py: reset_request_id
reset_request_id(ctx, r, token) == [ctx EXCEPT ![r] = token]

\* logging.py: get_request_id
get_request_id(ctx, r) == ctx[r]

\* the request_id column of a row that record_event or record_provider_log writes from
\* request r: their request_id argument when given, else the ambient one
RequestIdColumn(request_id, ctx, r) ==
    IF request_id \notin {NULL, ""} THEN request_id ELSE get_request_id(ctx, r)

\* a row of events or provider_logs, with the request and the code that wrote it
WrittenRow(table, r, writer, request_id) ==
    [table |-> table, by |-> r, writer |-> writer, request_id |-> request_id]

\* RequestContextMiddleware.dispatch up to call_next
Dispatch(r, header) ==
    /\ http_req[r].pc = "new"
    /\ LET request_id == IF header # "" THEN header ELSE uuid4(r)
           bound == set_request_id(request_id_ctx, r, request_id)
       IN  /\ request_id_ctx' = bound.ctx
           /\ http_req' = [http_req EXCEPT ![r] = [pc |-> "handling", header |-> header,
                                                  request_id |-> request_id,
                                                  token |-> bound.token, writes |-> 0]]
    /\ UNCHANGED <<now, credVars, envVars, storeVars, selVars, apiVars, teleVars, normVars,
                   written>>

\* a record_event call of the endpoint, the selector or an adapter of request r
EndpointRecordsEvent(r) ==
    /\ http_req[r].pc = "handling"
    /\ http_req[r].writes < MaxWrites
    /\ written' = Append(written, WrittenRow("events", r, "endpoint",
                                             RequestIdColumn(NULL, request_id_ctx, r)))
    /\ http_req' = [http_req EXCEPT ![r].writes = @ + 1]
    /\ UNCHANGED <<now, credVars, envVars, storeVars, selVars, apiVars, teleVars, normVars,
                   request_id_ctx>>

\* a record_provider_log call of an adapter of request r
AdapterRecordsLog(r) ==
    /\ http_req[r].pc = "handling"
    /\ http_req[r].writes < MaxWrites
    /\ written' = Append(written, WrittenRow("provider_logs", r, "endpoint",
                                             RequestIdColumn(NULL, request_id_ctx, r)))
    /\ http_req' = [http_req EXCEPT ![r].writes = @ + 1]
    /\ UNCHANGED <<now, credVars, envVars, storeVars, selVars, apiVars, teleVars, normVars,
                   request_id_ctx>>

\* call_next returns a response (an HTTPException included): the finally block, the header
CallNextReturns(r) ==
    /\ http_req[r].pc = "handling"
    /\ request_id_ctx' = reset_request_id(request_id_ctx, r, http_req[r].token)
    /\ http_req' = [http_req EXCEPT ![r].pc = "done"]
    /\ UNCHANGED <<now, credVars, envVars, storeVars, selVars, apiVars, teleVars, normVars,
                   written>>

\* call_next raises: the finally block, then unexpected_exception_handler answers 500
\* and records request_error
CallNextRaises(r) ==
    /\ http_req[r].pc = "handling"
    /\ request_id_ctx' = reset_request_id(request_id_ctx, r, http_req[r].token)
    /\ written' = Append(written, WrittenRow("events", r, "unexpected_exception_handler",
                                             RequestIdColumn(NULL, request_id_ctx', r)))
    /\ http_req' = [http_req EXCEPT ![r].pc = "failed"]
    /\ UNCHANGED <<now, credVars, envVars, storeVars, selVars, apiVars, teleVars, normVars>>

ContextInit ==
    /\ now = 0
    /\ cred_op = NoCredOp
    /\ cred_count = 0
    /\ cproc = [c \in 1..MaxProcs |-> IdleProc]
    /\ creds = {}
    /\ SelectorUnused

ContextNext ==
    \/ \E r \in 1..MaxRequests, header \in Headers : Dispatch(r, header)
    \/ \E r \in 1..MaxRequests : EndpointRecordsEvent(r)
    \/ \E r \in 1..MaxRequests : AdapterRecordsLog(r)
    \/ \E r \in 1..MaxRequests : CallNextReturns(r)
    \/ \E r \in 1..MaxRequests : CallNextRaises(r)

SpecContext == ContextInit /\ [][ContextNext]_vars

(***************************************************************************)
(* Properties of the selector                                              *)
(***************************************************************************)
\* positions of the events of a kind among the events a run recorded
EventsOfKind(kind) == {k \in 1..Len(emitted) : emitted[k].kind = kind}

\* the provider of config with the given id
ConfiguredProvider(pid) == config[CHOOSE i \in 1..Len(config) : config[i].id = pid]

\* chat_completions of this provider, given the request with its model resolved,
\* would return a response
WouldSucceed(provider_model) ==
    /\ provider_model.id \in AdapterMap
    /\ _resolve_request_model(request, provider_model).error = NoError
    /\ get_api_key(creds, provider_model.id) \notin {NULL, ""}
    /\ vendor[provider_model.id] \in {"ok", "ok_model"}

\* attempt i ended with an error
AttemptFailed(i) == attempts[i].ended /\ attempts[i].error # NoError

\* C1: in a finished run without override in which some configured provider's call
\* would succeed, the response returned comes from the first provider in priority
\* order whose call does not fail, and every provider ahead of it was attempted and
\* failed.
C1_HighestPrioritySuccessWins ==
    (pc = "done" /\ provider_override = NULL) =>
        LET sorted == providers(config)
            good == {i \in 1..Len(sorted) : WouldSucceed(sorted[i])}
        IN  good # {} =>
              LET w == CHOOSE i \in good : \A j \in good : i <= j
              IN  /\ result.status = "returned"
                  /\ result.response.provider = sorted[w].id
                  /\ \A j \in 1..(w - 1) :
                        /\ j <= Len(attempts)
                        /\ attempts[j].provider = sorted[j].id
                        /\ AttemptFailed(j)

\* C2: after an attempt that fails with an error of the taxonomy (credentials
\* missing, 401, provider unavailable, no adapter class, no default model) the next
\* candidate is tried; the run raises such an error only when no candidate remains.
C2_EveryFailureFailsOver ==
    pc = "done" =>
        \A i \in 1..Len(attempts) :
            (AttemptFailed(i) /\ IsProviderUnavailable(attempts[i].error)
                /\ i < Len(providers_to_try))
            => Len(attempts) > i

\* C3: when every attempted candidate failed, select_provider raises the error of
\* the last candidate attempted.
C3_LastErrorSurfaces ==
    (pc = "done" /\ attempts # <<>> /\ \A i \in 1..Len(attempts) : AttemptFailed(i))
        => result = Raised(attempts[Len(attempts)].error)

C3_Witness ==
    /\ pc = "done"
    /\ Len(attempts) >= 2
    /\ \A i \in 1..Len(attempts) : AttemptFailed(i)
    /\ attempts[1].error.message # attempts[2].error.message
    /\ result.status = "raised"

\* C4: a run in which every candidate's attempt failed records exactly one
\* request_error event, of level ERROR and with provider_from the last candidate
\* tried; a run that returns a response records none.
C4_OneRequestError ==
    pc = "done" =>
        /\ (/\ providers_to_try # <<>>
            /\ Len(attempts) = Len(providers_to_try)
            /\ \A i \in 1..Len(attempts) : AttemptFailed(i))
           => /\ Cardinality(EventsOfKind("request_error")) = 1
              /\ \A k \in EventsOfKind("request_error") :
                    /\ emitted[k].level = "ERROR"
                    /\ emitted[k].provider_from = attempts[Len(attempts)].provider
        /\ result.status = "returned" => EventsOfKind("request_error") = {}

\* attempts whose adapter raised a provider-unavailable error, which the loop caught
CaughtFailures ==
    {i \in 1..Len(attempts) :
        attempts[i].called /\ AttemptFailed(i) /\ IsProviderUnavailable(attempts[i].error)}

\* C5 as stated: a finished run recorded an event for every failover (a caught failure
\* with a candidate left), for the final failure (the candidates ran out after a
\* failure), and for the final success: a run that returned a response recorded at
\* least one event, also when its first candidate succeeded.
C5_EventOnEveryRun ==
    pc = "done" =>
        /\ \A i \in CaughtFailures :
              i < Len(providers_to_try) =>
                  \E k \in EventsOfKind("provider_switched") : emitted[k].attempt = i + 1
        /\ (attempt_index > Len(providers_to_try) /\ CaughtFailures # {})
              => EventsOfKind("request_error") # {}
        /\ result.status = "returned" => emitted # <<>>

\* C5 as amended: a provider_fail event for every attempt whose adapter raised a
\* provider-unavailable error, a provider_switched event for every such failure that
\* another candidate followed, a request_error event when the candidates ran out after
\* a failure, and no event for a success: the run whose first candidate succeeds
\* records nothing.
C5_EventsOnFailureOnly ==
    pc = "done" =>
        /\ Cardinality(EventsOfKind("provider_fail")) = Cardinality(CaughtFailures)
        /\ Cardinality(EventsOfKind("provider_switched"))
               + Cardinality(EventsOfKind("request_error"))
             = Cardinality(CaughtFailures)
        /\ Cardinality(EventsOfKind("request_error")) =
               IF attempt_index > Len(providers_to_try) /\ CaughtFailures # {}
               THEN 1 ELSE 0
        /\ Len(emitted) = Cardinality(EventsOfKind("provider_fail"))
                            + Cardinality(EventsOfKind("provider_switched"))
                            + Cardinality(EventsOfKind("request_error"))
        /\ (result.status = "returned" /\ Len(attempts) = 1) => emitted = <<>>

C5_Witness ==
    /\ pc = "done"
    /\ result.status = "returned"
    /\ Len(attempts) = 1
    /\ emitted = <<>>

C7_OverridePinsProvider ==
    provider_override # NULL =>
        /\ Len(attempts) <= 1
        /\ \A i \in 1..Len(attempts) : attempts[i].provider = provider_override
        /\ EventsOfKind("provider_switched") = {}
        /\ provider_override \notin ConfiguredIds(config) =>
              /\ pc = "done"
              /\ result = Raised(ProviderUnavailableError(provider_override,
                                                          "Provider not configured"))
              /\ attempts = <<>>
              /\ emitted = <<>>

C7_Witness ==
    /\ pc = "done"
    /\ provider_override # NULL
    /\ Len(config) >= 2
    /\ providers(config)[1].id # provider_override
    /\ Len(attempts) = 1
    /\ attempts[1].called
    /\ AttemptFailed(1)

(***************************************************************************)
(* Properties of the credential store                                      *)
(***************************************************************************)
\* C8: at every point of every interleaving of upsert_api_key, record_error,
\* clear_error and delete_api_key calls the table holds at most one row for each
\* provider_id.
C8_OneRowPerProvider ==
    \A p \in ProviderIds : Cardinality(CredRowsOf(creds, p)) <= 1

\* two callers inserted a row of the same provider and the second was rejected
C8_Witness ==
    /\ \E c \in 1..MaxProcs : cproc[c].raised
    /\ \E p \in CredIds : Cardinality(CredRowsOf(creds, p)) = 1

\* C9: after upsert_api_key(p, k) returns, get_api_key(p) is k and the row of p has
\* neither last_error nor last_error_at, whatever row p had before.
C9_UpsertStoresKeyAndClearsError ==
    cred_op.op = "upsert_api_key" =>
        /\ get_api_key(creds, cred_op.provider_id) = cred_op.arg
        /\ \A r \in CredRowsOf(creds, cred_op.provider_id) :
              r.last_error = NULL /\ r.last_error_at = NoTime

\* upsert_api_key replaced the key of a row that carried an error
C9_Witness ==
    /\ cred_op.op = "upsert_api_key"
    /\ \E r \in CredRowsOf(cred_op.before, cred_op.provider_id) :
          r.last_error # NULL /\ r.api_key \notin {"", cred_op.arg}
    /\ get_api_key(creds, cred_op.provider_id) = cred_op.arg

\* C10: after record_error(p, e) the row of p has last_error e and a last_error_at
\* (a new row has the empty api_key); after clear_error(p) the row of p has neither
\* and keeps its api_key; clear_error on a missing row or on a row without error
\* leaves the table as it was.
C10_RecordAndClearError ==
    LET p == cred_op.provider_id
        before == CredRowsOf(cred_op.before, p)
        after == CredRowsOf(creds, p)
    IN  /\ cred_op.op = "record_error" =>
              /\ after # {}
              /\ \A r \in after :
                    /\ r.last_error = cred_op.arg
                    /\ r.last_error_at # NoTime
                    /\ r.api_key = IF before = {} THEN "" ELSE FirstRow(before).api_key
        /\ cred_op.op = "clear_error" =>
              /\ \A r \in after :
                    /\ r.last_error = NULL
                    /\ r.last_error_at = NoTime
                    /\ before # {}
                    /\ r.api_key = FirstRow(before).api_key
              /\ (before = {} \/ FirstRow(before).last_error = NULL) => creds = cred_op.before

\* clear_error cleared the error of a row that has an api key, at a later time
C10_Witness ==
    /\ cred_op.op = "clear_error"
    /\ \E r \in CredRowsOf(cred_op.before, cred_op.provider_id) :
          r.last_error # NULL /\ r.api_key # ""
    /\ \E r \in CredRowsOf(creds, cred_op.provider_id) :
          r.last_error = NULL /\ r.api_key # ""

(***************************************************************************)
(* Properties of the credential rows, the adapters, the admin endpoints    *)
(* and the ingress                                                         *)
(***************************************************************************)
\* C11: every row of the credential table has last_error_at null exactly when its
\* last_error is null, after any sequence of admin and adapter calls (which make the
\* upsert_api_key, record_error, clear_error and delete_api_key calls of the program).
C11_ErrorAndTimeTogether ==
    \A r \in creds : (r.last_error_at = NoTime) <=> (r.last_error = NULL)

\* a call recorded an error on a row that had none while another row keeps its error
C11_Witness ==
    /\ admin_count >= 2
    /\ \E r \in creds, b \in admin_op.creds_before :
          /\ r.id = b.id
          /\ b.last_error = NULL
          /\ r.last_error # NULL
          /\ r.last_error_at # NoTime
    /\ \E r \in creds : r.last_error = NULL /\ r.last_error_at = NoTime

\* the credential table without rowids and update stamps
CredentialFields(tbl) ==
    {[provider_id |-> r.provider_id, api_key |-> r.api_key, last_error |-> r.last_error,
      last_error_at |-> r.last_error_at] : r \in tbl}

\* C12: an upsert_api_key(p, k) call that directly follows an upsert_api_key(p, k) call
\* leaves the rows of the table, with their api_key, last_error and last_error_at, as
\* the first call left them, and adds no row.
C12_UpsertIdempotent ==
    [][(/\ cred_op.op = "upsert_api_key"
        /\ cred_op'.op = "upsert_api_key"
        /\ cred_count' = cred_count + 1
        /\ cred_op'.provider_id = cred_op.provider_id
        /\ cred_op'.arg = cred_op.arg)
       => /\ CredentialFields(creds') = CredentialFields(creds)
          /\ {r.id : r \in creds'} = {r.id : r \in creds}]_vars

\* the second of two upsert_api_key(p, k) calls made in a row on an empty table, at a
\* later time than the first
C12_Witness ==
    /\ cred_count = 2
    /\ cred_op.op = "upsert_api_key"
    /\ \E r \in cred_op.before :
          /\ r.provider_id = cred_op.provider_id
          /\ r.api_key = cred_op.arg
    /\ \E r \in creds, b \in cred_op.before : r.id = b.id /\ r.updated_at > b.updated_at
    /\ CredentialFields(creds) = CredentialFields(cred_op.before)
    /\ Cardinality(creds) = 1

\* C13: delete_api_key(p) returns true exactly when p had a row, which it removes;
\* afterwards get_api_key(p) is null, another delete_api_key(p) returns false and
\* changes nothing, and the rows of the other providers are as before.
C13_DeleteRemovesRow ==
    cred_op.op = "delete_api_key" =>
        LET p == cred_op.provider_id
        IN  /\ cred_op.ret <=> (CredRowsOf(cred_op.before, p) # {})
            /\ CredRowsOf(creds, p) = {}
            /\ get_api_key(creds, p) = NULL
            /\ ~delete_api_key(creds, p).ret
            /\ delete_api_key(creds, p).tbl = creds
            /\ {r \in creds : r.provider_id # p} = {r \in cred_op.before : r.provider_id # p}

\* a delete_api_key that removed the row of one provider and left the row of another
C13_Witness ==
    /\ cred_op.op = "delete_api_key"
    /\ cred_op.ret
    /\ CredRowsOf(cred_op.before, cred_op.provider_id) # {}
    /\ creds # {}

\* the credential error code a failed vendor call is recorded under
FailureCode(outcome) ==
    CASE outcome = "network" -> "network"
      [] outcome = "http_401" -> "auth"
      [] outcome = "http_429" -> "rate_limit"
      [] outcome = "http_500" -> "http_500"
      [] OTHER -> NULL

\* C14: after an adapter's chat_completions fails with a transport error, a 401, a
\* 402/403/429 or another status >= 400, the provider's row has last_error "network",
\* "auth", "rate_limit" or "http_<status>", and is_available is false for a provider
\* as long as its row has a last_error.
C14_FailureRecordsError ==
    /\ (admin_op.op = "chat_completions" /\ admin_op.http
            /\ FailureCode(admin_op.outcome) # NULL)
       => /\ CredRowsOf(creds, admin_op.provider_id) # {}
          /\ \A r \in CredRowsOf(creds, admin_op.provider_id) :
                r.last_error = FailureCode(admin_op.outcome)
          /\ ~is_available(creds, admin_op.provider_id)
    /\ \A p \in ProviderIds :
          (\E r \in CredRowsOf(creds, p) : r.last_error # NULL) => ~is_available(creds, p)

\* a provider that was available fails a chat_completions call with a status >= 400
C14_Witness ==
    /\ admin_op.op = "chat_completions"
    /\ admin_op.outcome = "http_500"
    /\ is_available(admin_op.creds_before, admin_op.provider_id)
    /\ ~is_available(creds, admin_op.provider_id)
    /\ has_api_key(creds, admin_op.provider_id)

\* C15: validate_api_key leaves the credential table and the provider traces as they
\* were, whatever the vendor answers.
C15_ValidateWritesNothing ==
    admin_op.called =>
        /\ admin_op.validated.creds = admin_op.creds_before
        /\ admin_op.validated.traces = admin_op.traces_before

\* validate_api_key of an adapter that writes traces got a 401 for a provider with a row
C15_Witness ==
    /\ admin_op.called
    /\ admin_op.http
    /\ admin_op.outcome = "http_401"
    /\ admin_op.provider_id \in LoggingAdapters
    /\ CredRowsOf(admin_op.creds_before, admin_op.provider_id) # {}

\* C16: with no api key stored for its provider, or an empty one, chat_completions
\* raises the credentials-missing error without an HTTP request, a change of the
\* credential table or a trace entry.
C16_MissingKeyFailsEarly ==
    (admin_op.op = "chat_completions"
        /\ get_api_key(admin_op.creds_before, admin_op.provider_id) \in {NULL, ""})
    => /\ admin_op.error = AuthenticationRequiredError(admin_op.provider_id)
       /\ ~admin_op.http
       /\ creds = admin_op.creds_before
       /\ traces = admin_op.traces_before

\* chat_completions of a provider whose row holds the empty api key
C16_Witness ==
    /\ admin_op.op = "chat_completions"
    /\ get_api_key(admin_op.creds_before, admin_op.provider_id) = ""
    /\ admin_op.error.kind = "AuthenticationRequiredError"

\* C17: the ingress answers 200 when select_provider returned, 401 with code
\* provider_auth_required when it raised the authentication error, 429 with code
\* provider_unavailable when it raised any other selector error (all candidates
\* exhausted included), and 500 with code internal_error plus one request_error event
\* when it raised anything else.
C17_IngressStatusByKind ==
    http_response # NoHttpResponse =>
        /\ pc = "done"
        /\ result.status = "returned" =>
              /\ http_response.status = 200
              /\ http_response.emitted = <<>>
        /\ (result.status = "raised" /\ result.error.kind = "AuthenticationRequiredError") =>
              /\ http_response.status = 401
              /\ http_response.code = "provider_auth_required"
              /\ http_response.emitted = <<>>
        /\ (result.status = "raised" /\ result.error.kind = "ProviderUnavailableError") =>
              /\ http_response.status = 429
              /\ http_response.code = "provider_unavailable"
              /\ http_response.emitted = <<>>
        /\ (result.status = "raised"
                /\ result.error.kind \notin {"AuthenticationRequiredError",
                                             "ProviderUnavailableError"}) =>
              /\ http_response.status = 500
              /\ http_response.code = "internal_error"
              /\ Len(http_response.emitted) = 1
              /\ http_response.emitted[1].kind = "request_error"
              /\ http_response.emitted[1].level = "ERROR"
              /\ http_response.emitted[1].message = result.error.message
              /\ Len(events) >= 1
              /\ \E t \in 0..MaxNow :
                    events[Len(events)] = http_response.emitted[1] @@ [ts |-> t]

\* the ingress answered 401 for a run that failed over from an unavailable provider to
\* one without credentials, the last of the candidates
C17_Witness ==
    /\ http_response.status = 401
    /\ Len(attempts) >= 2
    /\ attempts[1].error.kind = "ProviderUnavailableError"
    /\ result.error.kind = "AuthenticationRequiredError"

\* the last admin call was a set-credential request with a key whose validation raised
\* the given error
SetKeyValidationRaised(kind) ==
    /\ admin_op.op = "set_provider_key"
    /\ admin_op.api_key # ""
    /\ admin_op.called
    /\ admin_op.error.kind = kind

\* how many events of a kind a sequence of events holds
CountKind(evs, kind) == Cardinality({i \in 1..Len(evs) : evs[i].kind = kind})

\* C18: a set-credential request whose key validate_api_key rejects with the
\* authentication error records the credential error "auth" for the provider and
\* exactly one provider_credentials_invalid WARNING event, records no
\* provider_credentials_updated event, and is answered 400.
C18_RejectedKeyRecordsAuth ==
    SetKeyValidationRaised("AuthenticationRequiredError") =>
        /\ CredRowsOf(creds, admin_op.provider_id) # {}
        /\ \A r \in CredRowsOf(creds, admin_op.provider_id) :
              r.last_error = "auth" /\ r.last_error_at # NoTime
        /\ Len(admin_op.emitted) = 1
        /\ admin_op.emitted[1].kind = "provider_credentials_invalid"
        /\ admin_op.emitted[1].level = "WARNING"
        /\ admin_op.emitted[1].provider_from = admin_op.provider_id
        /\ Len(events) >= 1
        /\ \E t \in 0..MaxNow : events[Len(events)] = admin_op.emitted[1] @@ [ts |-> t]
        /\ CountKind(events, "provider_credentials_invalid")
              <= CountKind(admin_op.events_before, "provider_credentials_invalid") + 1
        /\ CountKind(events, "provider_credentials_updated")
              <= CountKind(admin_op.events_before, "provider_credentials_updated")
        /\ admin_op.status = 400

\* a new key for a provider with a working key was rejected by the vendor
C18_Witness ==
    /\ SetKeyValidationRaised("AuthenticationRequiredError")
    /\ admin_op.http
    /\ is_available(admin_op.creds_before, admin_op.provider_id)
    /\ admin_op.api_key # get_api_key(admin_op.creds_before, admin_op.provider_id)
    /\ admin_op.status = 400

\* C19 as stated: a set-credential request whose validation raises the authentication
\* error adds no row, removes none and changes no provider's stored api key, whether
\* or not the provider had a row.
C19_NoRowAddedOrRemoved ==
    SetKeyValidationRaised("AuthenticationRequiredError") =>
        /\ {r.provider_id : r \in creds} = {r.provider_id : r \in admin_op.creds_before}
        /\ {r.id : r \in creds} = {r.id : r \in admin_op.creds_before}
        /\ \A p \in ProviderIds :
              get_api_key(creds, p) = get_api_key(admin_op.creds_before, p)

\* C19: a set-credential request whose validation raises the authentication error
\* removes no row, changes the stored api key of no row and never stores the submitted
\* key; the rows of other providers stay as they were, a row the provider had changes
\* in its error fields only, and a provider without a row gets one with the empty api
\* key and the error "auth".
C19_OnlyTheErrorIsRecorded ==
    SetKeyValidationRaised("AuthenticationRequiredError") =>
        LET p == admin_op.provider_id
            before == admin_op.creds_before
        IN  /\ \A b \in before : \E r \in creds :
                  /\ r.id = b.id
                  /\ r.provider_id = b.provider_id
                  /\ r.api_key = b.api_key
                  /\ b.provider_id # p => r = b
            /\ \A r \in creds :
                  \/ \E b \in before : b.id = r.id
                  \/ /\ CredRowsOf(before, p) = {}
                     /\ r.provider_id = p
                     /\ r.api_key = ""
                     /\ r.last_error = "auth"
            /\ Cardinality(creds) =
                  Cardinality(before) + (IF CredRowsOf(before, p) = {} THEN 1 ELSE 0)
            /\ \A r \in creds :
                  r.api_key = admin_op.api_key =>
                      \E b \in before : b.id = r.id /\ b.api_key = admin_op.api_key

\* the rejected key was submitted for a provider without a row while another provider
\* had one
C19_Witness ==
    /\ SetKeyValidationRaised("AuthenticationRequiredError")
    /\ CredRowsOf(admin_op.creds_before, admin_op.provider_id) = {}
    /\ admin_op.creds_before # {}
    /\ get_api_key(creds, admin_op.provider_id) = ""

\* C20: a set-credential request whose validation raises the unavailable error (not
\* the authentication error) leaves the credential table as it was, records exactly
\* one provider_health_fail WARNING event and is answered 503.
C20_UnavailableLeavesStore ==
    SetKeyValidationRaised("ProviderUnavailableError") =>
        /\ creds = admin_op.creds_before
        /\ Len(admin_op.emitted) = 1
        /\ admin_op.emitted[1].kind = "provider_health_fail"
        /\ admin_op.emitted[1].level = "WARNING"
        /\ admin_op.emitted[1].provider_from = admin_op.provider_id
        /\ Len(events) >= 1
        /\ \E t \in 0..MaxNow : events[Len(events)] = admin_op.emitted[1] @@ [ts |-> t]
        /\ CountKind(events, "provider_health_fail")
              <= CountKind(admin_op.events_before, "provider_health_fail") + 1
        /\ admin_op.status = 503

\* the vendor throttled the validation of a key for a provider with a row
C20_Witness ==
    /\ SetKeyValidationRaised("ProviderUnavailableError")
    /\ admin_op.http
    /\ admin_op.outcome = "http_429"
    /\ CredRowsOf(admin_op.creds_before, admin_op.provider_id) # {}
    /\ admin_op.status = 503

\* the last admin call was a health check of a configured provider with the given
\* stored key state
HealthcheckOf(with_key) ==
    /\ admin_op.op = "healthcheck_provider"
    /\ ProviderLookup(config, admin_op.provider_id) # {}
    /\ (get_api_key(admin_op.creds_before, admin_op.provider_id) \notin {NULL, ""}) = with_key

\* C21: a health check without a stored non-empty api key is rejected without calling
\* the adapter, changing state or recording events; with one it does what
\* set-credential does: on the authentication error it records the credential error
\* "auth" and emits provider_credentials_invalid, on the unavailable error it emits
\* provider_health_fail and leaves the credential table alone, on success it clears
\* the provider's error and emits provider_health_ok.
C21_HealthcheckLikeSetKey ==
    /\ HealthcheckOf(FALSE) =>
          /\ admin_op.status = 400
          /\ ~admin_op.called
          /\ creds = admin_op.creds_before
          /\ events = admin_op.events_before
          /\ traces = admin_op.traces_before
    /\ (HealthcheckOf(TRUE) /\ admin_op.called) =>
          /\ admin_op.error.kind = "AuthenticationRequiredError" =>
                /\ \A r \in CredRowsOf(creds, admin_op.provider_id) : r.last_error = "auth"
                /\ Len(admin_op.emitted) = 1
                /\ admin_op.emitted[1].kind = "provider_credentials_invalid"
          /\ admin_op.error.kind = "ProviderUnavailableError" =>
                /\ creds = admin_op.creds_before
                /\ Len(admin_op.emitted) = 1
                /\ admin_op.emitted[1].kind = "provider_health_fail"
          /\ admin_op.error = NoError =>
                /\ \A r \in CredRowsOf(creds, admin_op.provider_id) : r.last_error = NULL
                /\ Len(admin_op.emitted) = 1
                /\ admin_op.emitted[1].kind = "provider_health_ok"

\* the rows of a table of events that are older than the retention cutoff at time t
OldEvents(tbl, t) == {i \in 1..Len(tbl) : tbl[i].ts < _current_retention_cutoff(t)}

\* C22 as stated: after any record_event call with events enabled, the table holds no
\* row older than the retention cutoff, whatever rows it held before.
C22_NoOldEventAfterRecord ==
    (tele_op.op = "record_event" /\ tele_op.enabled) => OldEvents(events, tele_op.at) = {}

\* C22: after a record_event call with events enabled whose transaction commits, the
\* table holds the rows it held before from the retention cutoff on, in their order,
\* then the new row, and so no row older than the cutoff; a call whose transaction
\* fails returns and leaves the table as it was.
C22_NoOldEventAfterCommit ==
    (tele_op.op = "record_event" /\ tele_op.enabled) =>
        IF "events" \in tele_op.down
        THEN events = tele_op.events_before
        ELSE /\ OldEvents(events, tele_op.at) = {}
             /\ Len(events) >= 1
             /\ events[Len(events)].ts = tele_op.at
             /\ SubSeq(events, 1, Len(events) - 1)
                   = SelectSeq(tele_op.events_before,
                               LAMBDA e : e.ts >= tele_op.at - (RETENTION_DAYS - 1))

\* a committed record_event found a row older than the cutoff and a row of yesterday
C22_Witness ==
    /\ tele_op.op = "record_event"
    /\ tele_op.enabled
    /\ "events" \notin tele_op.down
    /\ OldEvents(tele_op.events_before, tele_op.at) # {}
    /\ \E i \in 1..Len(tele_op.events_before) :
          tele_op.events_before[i].ts = tele_op.at - 1
    /\ Len(events) = 2

\* a sequence of events is ordered newest first
NewestFirst(rows) == \A k, l \in 1..Len(rows) : k < l => rows[k].ts >= rows[l].ts

\* what the last list_events call returned is ordered newest first and holds rows from
\* the cutoff on only, at most limit of them
ReturnedOnlyRecent ==
    /\ NewestFirst(tele_op.ret)
    /\ Len(tele_op.ret) <= limit_value(tele_op.limit)
    /\ \A k \in 1..Len(tele_op.ret) :
          tele_op.ret[k].ts >= tele_op.at - (RETENTION_DAYS - 1)

\* what it returned are rows of the table, each no more often than the table holds it,
\* none older than a row left out, and fewer than limit only when the table has no more
ReturnedTheNewest ==
    LET ret == tele_op.ret
    IN  /\ \A k \in 1..Len(ret) :
              Cardinality({l \in 1..Len(ret) : ret[l] = ret[k]})
                 <= Cardinality({i \in 1..Len(events) : events[i] = ret[k]})
        /\ Len(ret) < limit_value(tele_op.limit) => Len(ret) = Len(events)
        /\ Len(ret) >= 1 =>
              Cardinality({i \in 1..Len(events) : events[i].ts > ret[Len(ret)].ts})
                 < Len(ret)

\* the rows from the cutoff on are the rows from the cutoff on before the call
RecentEventsKept ==
    LET InWindow(e) == e.ts >= tele_op.at - (RETENTION_DAYS - 1)
    IN  SelectSeq(events, InWindow) = SelectSeq(tele_op.events_before, InWindow)

OldTraces(tbl, t) == {i \in 1..Len(tbl) : tbl[i].created_at < _start_of_today(t)}

\* what the last list_provider_logs call returned: rows of the provider created on the
\* day of the call, newest first, at most limit
ReturnedTodaysTraces ==
    LET ret == tele_op.ret
    IN  /\ Len(ret) <= tele_op.limit
        /\ \A k \in 1..Len(ret) :
              /\ ret[k].provider_id = tele_op.provider_id
              /\ ret[k].created_at >= tele_op.at
              /\ \E i \in 1..Len(traces) : traces[i] = ret[k]
        /\ \A k, l \in 1..Len(ret) : k < l => ret[k].created_at >= ret[l].created_at

\* C24 as stated: after any record_provider_log call the trace table holds no row, of
\* any provider, created before the current UTC day, and list_provider_logs(p) returns
\* only rows of p created on the current UTC day, newest first, at most limit.
C24_NoOldTraceAfterRecord ==
    /\ tele_op.op = "record_provider_log" => OldTraces(traces, tele_op.at) = {}
    /\ tele_op.op = "list_provider_logs" => ReturnedTodaysTraces

\* C24: after a record_provider_log call whose transaction commits the trace table
\* holds the rows of the current UTC day it held before, then the new row, and no row
\* of any provider created before that day; a call whose transaction fails returns and
\* leaves the table as it was; list_provider_logs(p) returns only rows of p created on
\* the current UTC day, newest first, at most limit, and changes nothing.
C24_NoOldTraceAfterCommit ==
    /\ tele_op.op = "record_provider_log" =>
          IF "provider_logs" \in tele_op.down
          THEN traces = tele_op.traces_before
          ELSE /\ OldTraces(traces, tele_op.at) = {}
               /\ Len(traces) >= 1
               /\ traces[Len(traces)].provider_id = tele_op.provider_id
               /\ traces[Len(traces)].created_at = tele_op.at
               /\ SubSeq(traces, 1, Len(traces) - 1)
                     = SelectSeq(tele_op.traces_before,
                                 LAMBDA l : l.created_at >= tele_op.at)
    /\ tele_op.op = "list_provider_logs" =>
          /\ ReturnedTodaysTraces
          /\ traces = tele_op.traces_before

\* a committed record_provider_log found a row of another provider from an earlier day
C24_Witness ==
    /\ tele_op.op = "record_provider_log"
    /\ "provider_logs" \notin tele_op.down
    /\ \E i \in OldTraces(tele_op.traces_before, tele_op.at) :
          tele_op.traces_before[i].provider_id # tele_op.provider_id
    /\ Len(traces) < Len(tele_op.traces_before) + 1

\* what a run over the candidates from position i on comes to when every telemetry
\* write succeeds, computed from the candidates, the request, the vendors' answers and
\* the stored api keys alone: the attempts, in order, and the result
RECURSIVE ExpectedRun(_, _, _)
ExpectedRun(i, tried, last_error) ==
    IF i > Len(providers_to_try)
    THEN [attempts |-> tried,
          result |-> Raised(IF last_error # NoError THEN last_error
                            ELSE ProviderUnavailableError("unknown",
                                                          "No providers configured"))]
    ELSE LET provider_model == providers_to_try[i]
             pid == provider_model.id
             resolved == _resolve_request_model(request, provider_model)
             raised == IF resolved.error # NoError THEN resolved.error
                       ELSE get_adapter(provider_model)
             r == _post_chat(pid, vendor[pid], resolved.model, {}, <<>>, FALSE, 0)
             call == [Attempt(pid, resolved.model, TRUE, TRUE, r.error)
                         EXCEPT !.ended = TRUE]
         IN  IF raised # NoError
             THEN [attempts |-> Append(tried, Attempt(pid, resolved.model, FALSE, FALSE,
                                                      raised)),
                   result |-> Raised(raised)]
             ELSE IF get_api_key(creds, pid) \in {NULL, ""}
             THEN ExpectedRun(i + 1,
                              Append(tried, Attempt(pid, resolved.model, TRUE, FALSE,
                                                    AuthenticationRequiredError(pid))),
                              AuthenticationRequiredError(pid))
             ELSE IF r.error = NoError
             THEN [attempts |-> Append(tried, call),
                   result |-> Returned(NormalizedResponse(pid, r.data, resolved.model))]
             ELSE IF IsProviderUnavailable(r.error)
             THEN ExpectedRun(i + 1, Append(tried, call), r.error)
             ELSE [attempts |-> Append(tried, call), result |-> Raised(r.error)]

\* the same for the whole request, an override that is not configured included
Expected ==
    IF provider_override # NULL /\ provider_override \notin ConfiguredIds(config)
    THEN [attempts |-> <<>>,
          result |-> Raised(ProviderUnavailableError(provider_override,
                                                     "Provider not configured"))]
    ELSE ExpectedRun(1, <<>>, NoError)

\* C25: a failure of the event store or the trace store during record_event or
\* record_provider_log does not reach the caller: whichever telemetry writes of a
\* select_provider run fail, the run attempts the candidates, calls the adapters and
\* ends with the response or the error that it comes to when every write succeeds.
C25_TelemetryFailuresDoNotShow ==
    /\ pc \in {"loop", "inflight"} =>
          /\ Len(attempts) <= Len(Expected.attempts)
          /\ \A k \in 1..Len(attempts) :
                /\ attempts[k].provider = Expected.attempts[k].provider
                /\ attempts[k].model = Expected.attempts[k].model
                /\ attempts[k].called = Expected.attempts[k].called
                /\ attempts[k].http = Expected.attempts[k].http
                /\ attempts[k].ended => attempts[k] = Expected.attempts[k]
    /\ pc = "done" =>
          /\ attempts = Expected.attempts
          /\ result = Expected.result

\* a run that failed over and returned a response although a write of an event and a
\* write of a trace had failed
C25_Witness ==
    /\ pc = "done"
    /\ result.status = "returned"
    /\ Len(attempts) >= 2
    /\ Len(events) < Len(emitted)
    /\ attempts[1].http
    /\ attempts[1].provider \in LoggingAdapters
    /\ \A i \in 1..Len(traces) : traces[i].provider_id # attempts[1].provider

\* the text columns of an event row and of a trace row
EventText(e) == {e.kind, e.level, e.provider_from, e.provider_to, e.model, e.message}
TraceText(l) == {l.provider_id, l.request_body, l.response_body}

\* the credential table with every stored api key replaced by its image under f
RenameKeys(f, tbl) ==
    {[r EXCEPT !.api_key = IF @ \in Keys THEN f[@] ELSE @] : r \in tbl}

\* the telemetry the last call writes when it is made again on the stores it found,
\* with every api key (stored or submitted) replaced by its image under f; a call
\* answered 303 came from the HTML form
Rerun(f) ==
    LET o == admin_op
        form == o.status = 303
        tbl == RenameKeys(f, o.creds_before)
        k == IF o.api_key \in Keys THEN f[o.api_key] ELSE o.api_key
        r == CASE o.op = "set_provider_key" ->
                    set_provider_key(config, o.provider_id, k, form, o.outcome, tbl,
                                     o.events_before, o.traces_before, now)
               [] o.op = "healthcheck_provider" ->
                    healthcheck_provider(config, o.provider_id, o.outcome, tbl,
                                         o.events_before, o.traces_before, now)
               [] o.op = "delete_provider_key" ->
                    delete_provider_key(o.provider_id, form, tbl, o.events_before,
                                        o.traces_before)
               [] o.op = "chat_completions" ->
                    [events |-> o.events_before,
                     traces |-> chat_completions(o.provider_id, "gpt-x", o.outcome, tbl,
                                                 o.traces_before, now).traces]
               [] OTHER -> [events |-> o.events_before, traces |-> o.traces_before]
    IN  [events |-> r.events, traces |-> r.traces]

IsText(item) == item.type = "text" /\ item.text # NULL
IsImage(item) == item.type = "image"
\* the images Cohere documents: a url source with its url, a base64 source with its data
IsUsableImage(item) ==
    /\ item.type = "image"
    /\ \/ item.source_type = "url" /\ item.url # NULL
       \/ item.source_type = "base64" /\ item.data # NULL

\* the texts of a content, joined in vendor order
RECURSIVE TextOf(_)
TextOf(items) ==
    IF items = <<>> THEN ""
    ELSE (IF IsText(Head(items)) THEN Head(items).text ELSE "") \o TextOf(Tail(items))

\* the part a text or a usable image is emitted as
PartOf(item) ==
    IF item.type = "text" THEN TextPart(item.text)
    ELSE IF item.source_type = "url" THEN ImagePart(item.url, item.media_type)
    ELSE ImagePart("data:" \o (IF item.media_type = NULL THEN "image/png"
                               ELSE item.media_type) \o ";base64," \o item.data, NULL)

\* message.content is the list of the parts of the given items, in their order
IsListOf(content, items) ==
    /\ content.is_list
    /\ Len(content.parts) = Len(items)
    /\ \A k \in 1..Len(items) :
          /\ content.parts[k].type = IF items[k].type = "text" THEN "text" ELSE "image_url"
          /\ items[k].type = "text" => content.parts[k].text = items[k].text

Reported(by, u) ==
    IF by = "gemini"
    THEN [prompt |-> {u.promptTokenCount}, completion |-> {u.candidatesTokenCount},
          total |-> u.totalTokenCount]
    ELSE IF u.has_tokens
    THEN [prompt |-> {u.tokens.input, u.tokens.prompt} \ {Absent},
          completion |-> {u.tokens.output, u.tokens.generation} \ {Absent},
          total |-> u.tokens.total]
    ELSE [prompt |-> {u.prompt_tokens}, completion |-> {u.completion_tokens},
          total |-> u.total_tokens]

\* C28: when the usage object given to Cohere's or Gemini's normalization reports one
\* prompt count and one completion count, 0 included, the normalized usage has
\* prompt_tokens and completion_tokens equal to them and total_tokens equal to the
\* reported total, or to their sum when no total is reported.
C28_UsageTotals ==
    normalized.by \in {"cohere", "gemini"} =>
        LET r == Reported(normalized.by, vendor_body.usage)
        IN  \A p \in r.prompt \ {Absent}, c \in r.completion \ {Absent} :
               (Cardinality(r.prompt) = 1 /\ Cardinality(r.completion) = 1) =>
                  /\ normalized.usage.present
                  /\ normalized.usage.prompt_tokens = p
                  /\ normalized.usage.completion_tokens = c
                  /\ normalized.usage.total_tokens = IF r.total # Absent THEN r.total
                                                     ELSE p + c

\* the number of provider_switched events among the first k events of the run
Switches(k) == Cardinality({j \in 1..k : emitted[j].kind = "provider_switched"})

\* C29: in a select_provider run every provider_switched event directly follows the
\* provider_fail event of its provider_from, the candidate attempted next (the one whose
\* chat_completions is called after the event) is its provider_to, and a request_error
\* event is the last event of the run.
C29_EventOrder ==
    \A k \in 1..Len(emitted) :
       /\ emitted[k].kind = "provider_switched" =>
             /\ k > 1
             /\ emitted[k - 1].kind = "provider_fail"
             /\ emitted[k - 1].provider_from = emitted[k].provider_from
             /\ Len(attempts) >= Switches(k) + 1
             /\ attempts[Switches(k) + 1].provider = emitted[k].provider_to
             /\ attempts[Switches(k) + 1].called
       /\ emitted[k].kind = "request_error" => k = Len(emitted) /\ pc = "done"

\* the attempts of the run whose chat_completions was called
Called == {k \in 1..Len(attempts) : attempts[k].called}

\* C30: in a select_provider run no candidate's chat_completions is called twice, every
\* attempt but the last one is over and has failed with a provider_unavailable error, at
\* most one call awaits its vendor (the last one, the one the run is waiting for), and
\* the calls made are at most as many as the candidates.
C30_SequentialAttempts ==
    /\ \A j, k \in Called : attempts[j].provider = attempts[k].provider => j = k
    /\ \A k \in 1..(Len(attempts) - 1) :
          /\ attempts[k].ended
          /\ IsProviderUnavailable(attempts[k].error)
    /\ \A k \in 1..Len(attempts) :
          ~attempts[k].ended =>
             /\ k = Len(attempts)
             /\ pc = "inflight"
             /\ inflight.provider = attempts[k].provider
    /\ pc = "inflight" => ~attempts[Len(attempts)].ended
    /\ Cardinality(Called) <= Len(providers_to_try)
    /\ \A k \in 1..Len(attempts) : attempts[k].provider = providers_to_try[k].id

\* a run over two candidates that called both, one after the other, and is over
C30_Witness ==
    /\ pc = "done"
    /\ Len(providers_to_try) = 2
    /\ Cardinality(Called) = 2
    /\ attempts[1].http
    /\ attempts[2].http
    /\ attempts[1].provider # attempts[2].provider

\* the table after caller c's call has run alone on tbl: SELECT and write together
RunAlone(tbl, c) ==
    CredWriteOf(tbl, [cproc[c] EXCEPT !.existing = CredRowsOf(tbl, cproc[c].provider_id)],
                now).tbl

\* the callers that have made a call
Callers == {c \in 1..MaxProcs : cproc[c].op # "none"}

\* C31: no call of upsert_api_key, record_error, clear_error or delete_api_key raises
\* to its caller, and when two callers have each made one call on the same provider_id
\* of an empty table and both have returned, the table is what the two calls leave
\* when they run one after the other in one of the two orders.
C31_CallsSerialize ==
    /\ \A c \in 1..MaxProcs : ~cproc[c].raised
    /\ \A c \in Callers, d \in Callers :
          (/\ c # d
           /\ cred_count = 2
           /\ cproc[c].pc = "idle"
           /\ cproc[d].pc = "idle"
           /\ cproc[c].provider_id = cproc[d].provider_id) =>
             creds \in {RunAlone(RunAlone({}, c), d), RunAlone(RunAlone({}, d), c)}

\* the row of the provider of the last call has an error recorded, before and after it
HadError(tbl, pid) == \E r \in CredRowsOf(tbl, pid) : r.last_error \notin {NULL, ""}

\* C32: an adapter's chat_completions takes a recorded credential error away only when
\* it returns a response, and after every call that issued its HTTP request and failed
\* the provider's row has a non-null last_error.
C32_ErrorClearedOnlyOnSuccess ==
    admin_op.op = "chat_completions" =>
        /\ (HadError(admin_op.creds_before, admin_op.provider_id)
            /\ ~HadError(creds, admin_op.provider_id)) => admin_op.error = NoError
        /\ (admin_op.http /\ admin_op.error # NoError) =>
              HadError(creds, admin_op.provider_id)

\* the body, as the traces keep it, and the status code of the trace entry a call with
\* the given vendor answer has to write; a body that is not JSON is no classified answer
TraceBodyOf(outcome) ==
    CASE outcome = "network" -> [body |-> "network", status_code |-> 0]
      [] outcome = "http_401" -> [body |-> "unauthorized", status_code |-> 401]
      [] outcome = "http_429" -> [body |-> "rate_limit", status_code |-> 429]
      [] outcome = "http_500" -> [body |-> "http_error", status_code |-> 500]
      [] outcome = "non_object" -> [body |-> "unexpected_response", status_code |-> 0]
      [] OTHER -> [body |-> "data", status_code |-> 200]

\* C33: a chat_completions call of any adapter that issues its HTTP request adds exactly
\* one entry to the provider traces: the provider, the request body and the parsed
\* response body on success, the error type and the status code on a classified failure.
C33_OneTracePerCall ==
    (admin_op.op = "chat_completions" /\ admin_op.http) =>
        /\ Len(traces) = Len(admin_op.traces_before) + 1
        /\ SubSeq(traces, 1, Len(admin_op.traces_before)) = admin_op.traces_before
        /\ LET entry == traces[Len(traces)]
           IN  /\ entry.provider_id = admin_op.provider_id
               /\ entry.request_body = "gpt-x"
               /\ entry.response_body = TraceBodyOf(admin_op.outcome).body
               /\ entry.status_code = TraceBodyOf(admin_op.outcome).status_code

\* the set-credential operation whose validate_api_key returned without an error
KeyValidated ==
    /\ admin_op.op = "set_provider_key"
    /\ admin_op.called
    /\ admin_op.error = NoError

\* C34: set_provider_key persists an api_key only after validate_api_key returned
\* successfully for that exact key in the same request; on that path the key is upserted,
\* the provider's last_error is null afterwards, and exactly one
\* provider_credentials_updated INFO event is recorded
C34_KeySavedOnlyAfterValidation ==
    /\ (admin_op.op = "set_provider_key"
        /\ get_api_key(creds, admin_op.provider_id) \notin {NULL, ""}
        /\ get_api_key(creds, admin_op.provider_id)
             # get_api_key(admin_op.creds_before, admin_op.provider_id)) =>
           /\ KeyValidated
           /\ admin_op.validated.key = admin_op.api_key
           /\ get_api_key(creds, admin_op.provider_id) = admin_op.validated.key
    /\ KeyValidated =>
           /\ get_api_key(creds, admin_op.provider_id) = admin_op.api_key
           /\ \A r \in CredRowsOf(creds, admin_op.provider_id) :
                  r.last_error = NULL /\ r.last_error_at = NoTime
           /\ Len(admin_op.emitted) = 1
           /\ admin_op.emitted[1].kind = "provider_credentials_updated"
           /\ admin_op.emitted[1].level = "INFO"
           /\ admin_op.emitted[1].provider_from = admin_op.provider_id
           /\ CountKind(events, "provider_credentials_updated")
                = CountKind(admin_op.events_before, "provider_credentials_updated") + 1
           /\ Len(events) = Len(admin_op.events_before) + 1

\* a validated key replaced the key of a row that carried an error
C34_Witness ==
    /\ KeyValidated
    /\ HadError(admin_op.creds_before, admin_op.provider_id)
    /\ get_api_key(admin_op.creds_before, admin_op.provider_id) \notin {NULL, "", admin_op.api_key}
    /\ get_api_key(creds, admin_op.provider_id) = admin_op.api_key

\* the handling of request r has ended, with a response or with an exception
Ended(r) == http_req[r].pc \in {"done", "failed"}

\* C35: with several requests handled concurrently, every event and trace row recorded
\* while request r is handled carries r's request id (the inbound X-Request-Id or the
\* minted one) and never another request's, and once r's handling has ended, normally
\* or by an exception, the ambient context no longer holds r's id
C35_RowsCarryRequestId ==
    /\ \A i \in 1..Len(written) :
          /\ written[i].request_id = http_req[written[i].by].request_id
          /\ http_req[written[i].by].request_id
                = IF http_req[written[i].by].header # "" THEN http_req[written[i].by].header
                  ELSE uuid4(written[i].by)
          /\ \A r \in 1..MaxRequests :
                (r # written[i].by /\ http_req[r].request_id # http_req[written[i].by].request_id)
                    => written[i].request_id # http_req[r].request_id
    /\ \A r \in 1..MaxRequests : Ended(r) => get_request_id(request_id_ctx, r) = NULL

\* the request was cancelled while an adapter call was in flight
WasCancelled(hist) == \E i \in 1..Len(hist) : hist[i].error = CancelledError

\* C36: if a request is cancelled while an adapter call is in flight, select_provider
\* stops: no further candidate is attempted after the cancellation and no
\* provider_switched or request_error event is recorded for the request afterwards
C36_CancellationStops ==
    [][/\ (WasCancelled(attempts') /\ ~WasCancelled(attempts)) =>
             /\ pc = "inflight"
             /\ Len(attempts') = Len(attempts)
             /\ emitted' = emitted
             /\ events' = events
             /\ result'.status = "raised" /\ result'.error = CancelledError
       /\ WasCancelled(attempts) =>
             /\ attempts' = attempts
             /\ emitted' = emitted
             /\ events' = events
             /\ pc' \notin {"loop", "inflight"}]_vars

\* the call to the first candidate was cancelled while a second one, with a key, waited
C36_Witness ==
    /\ pc = "cancelled"
    /\ attempts[Len(attempts)].error = CancelledError
    /\ attempt_index < Len(providers_to_try)
    /\ has_api_key(creds, providers_to_try[attempt_index + 1].id)
    /\ \A i \in 1..Len(emitted) : emitted[i].kind # "request_error"
    /\ http_response = NoHttpResponse

\* the credential row of a provider holds a non-empty api_key
KeyStored(tbl, pid) == \E r \in CredRowsOf(tbl, pid) : r.api_key # ""

\* the credential row of a provider carries a recorded error
ErrorStored(tbl, pid) == \E r \in CredRowsOf(tbl, pid) : r.last_error # NULL

\* C37: select_provider attempts every candidate in priority order regardless of its
\* stored error state: a provider whose row has a non-null last_error (is_available
\* false) but a non-empty api_key is still called, and only a missing or empty api_key
\* prevents the upstream call
C37_ErrorStateDoesNotSkip ==
    [][Len(attempts') = Len(attempts) + 1 =>
         LET a == attempts'[Len(attempts')]
         IN  /\ attempt_index = Len(attempts) + 1
             /\ a.provider = providers_to_try[attempt_index].id
             /\ \A i \in 1..Len(providers_to_try) - 1 :
                   providers_to_try[i].priority <= providers_to_try[i + 1].priority
             /\ a.called => (a.http <=> KeyStored(creds, a.provider))
             /\ (a.called /\ KeyStored(creds, a.provider) /\ ErrorStored(creds, a.provider))
                   => (a.http /\ ~is_available(creds, a.provider)
                       /\ inflight'.provider = a.provider /\ pc' = "inflight")]_vars

\* a candidate whose row is keyless was refused without an upstream call, and the next
\* one, whose row carries an error and a key, is being called
C37_Witness ==
    /\ pc = "inflight"
    /\ Len(attempts) = 2
    /\ attempts[1].called /\ ~attempts[1].http
    /\ \E r \in CredRowsOf(creds, attempts[1].provider) : r.api_key = ""
    /\ attempts[2].http
    /\ KeyStored(creds, inflight.provider)
    /\ ErrorStored(creds, inflight.provider)

\* an exception of an adapter call that is no provider_unavailable error
IsOtherException(e) ==
    e.kind \notin {"none", "ProviderUnavailableError", "AuthenticationRequiredError",
                   "CancelledError"}

\* C38: an exception raised by an adapter's chat_completions that is not a
\* provider_unavailable error (a malformed vendor body, for example) propagates out of
\* select_provider immediately: no later candidate is attempted and select_provider
\* records no provider_fail, provider_switched or request_error event for that attempt
C38_OtherExceptionPropagates ==
    [][/\ (pc = "inflight" /\ IsOtherException(attempts'[Len(attempts')].error)) =>
             /\ result' = Raised(attempts'[Len(attempts')].error)
             /\ pc' = "done"
             /\ Len(attempts') = Len(attempts)
             /\ attempt_index' = attempt_index
             /\ emitted' = emitted
             /\ events' = events
       /\ (result.status = "raised" /\ IsOtherException(result.error)) =>
             /\ attempts' = attempts
             /\ emitted' = emitted
             /\ result' = result
             /\ pc' = "done"]_vars

\* a vendor body that is not JSON ended the run at the first candidate while a second
\* one, with a key, waited
C38_Witness ==
    /\ result.status = "raised"
    /\ result.error.kind = "ValueError"
    /\ Len(attempts) = 1
    /\ attempts[1].http /\ attempts[1].error = result.error
    /\ Len(providers_to_try) = 2
    /\ KeyStored(creds, providers_to_try[2].id)
    /\ emitted = <<>>

\* the trace entries of a provider
TracesOf(logs, pid) == SelectSeq(logs, LAMBDA e : e.provider_id = pid)

\* the candidates behind the loop's position
Later == {providers_to_try[i].id : i \in attempt_index + 1..Len(providers_to_try)}

\* C39: in a select_provider run that returns a response from candidate q, no candidate
\* after q in priority order is called, and the credential rows and trace entries of
\* those later candidates are unchanged by the run; the caller's request object is also
\* unchanged (its model field is not overwritten when a default model is substituted)
C39_LaterCandidatesUntouched ==
    [][/\ pc # "idle" => request' = request
       /\ \A p \in Later :
             /\ CredRowsOf(creds', p) = CredRowsOf(creds, p)
             /\ TracesOf(traces', p) = TracesOf(traces, p)
             /\ \A j \in 1..Len(attempts') : attempts'[j].provider # p
       /\ result.status = "returned" =>
             /\ Len(attempts) = attempt_index
             /\ result.response.provider = providers_to_try[attempt_index].id
             /\ attempts[attempt_index].provider = result.response.provider
             /\ attempts' = attempts
             /\ creds' = creds
             /\ traces' = traces
             /\ attempt_index' = attempt_index
             /\ providers_to_try' = providers_to_try]_vars

\* the first candidate answered a request without a model from its default model, and
\* the second one, whose row carries a key and an error, was left alone
C39_Witness ==
    /\ result.status = "returned"
    /\ attempt_index = 1
    /\ Len(providers_to_try) = 2
    /\ request.model = ""
    /\ attempts[1].model # request.model
    /\ KeyStored(creds, providers_to_try[2].id)
    /\ ErrorStored(creds, providers_to_try[2].id)
    /\ TracesOf(traces, providers_to_try[2].id) = <<>>

\* the last call on the credential store was a delete_api_key that removed a row
RowDeleted == cred_op.op = "delete_api_key" /\ cred_op.ret

\* C40: once delete_api_key(p) has removed p's credential row, no credential row for p
\* exists again until the next upsert_api_key(p, ...); in particular a chat_completions
\* attempt for p that had read the key and fails after the deletion (its record_error is
\* the next call on the store) does not bring a row for p back
C40_DeletedStaysDeleted ==
    [][(/\ RowDeleted
        /\ ~(cred_op'.op = "upsert_api_key" /\ cred_op'.provider_id = cred_op.provider_id))
          => CredRowsOf(creds', cred_op.provider_id) = {}]_vars

====
